---- MODULE Spec2Model ----
(***************************************************************************)
(* FlavorLab backend.                                                      *)
(*                                                                         *)
(* The relationship graph search behind                                    *)
(*   GET /entities/{entity_id}/connections                                 *)
(*   GET /entities/{entity_id}/path/{target_id}                            *)
(* The two HTTP handlers are app/api/entities.py.  They call               *)
(* SearchService (app/services/search.py), whose algorithm is modelled     *)
(* from the specification of the Graph Search component: a bounded-depth   *)
(* breadth-first search over the Relationship Store, edges traversed in    *)
(* either direction.                                                       *)
(*                                                                         *)
(* Meal logging from templates, app/api/meals.py:                          *)
(*   POST /meals/{meal_id}/log                                             *)
(*   POST /meals/log-from-template/{template_id}                           *)
(*                                                                         *)
(* Further down: the survey, the health goals and the meal plan endpoints  *)
(* of app/api/users.py with the prompt builder of                          *)
(* app/services/llm_service.py, the daily calorie goal, the dashboard      *)
(* operations of app/api/meals.py, entity CRUD of app/api/entities.py and  *)
(* the account handlers (register, login, deactivate, activate) of         *)
(* app/api/users.py.  Each part has its own specification.                 *)
(***************************************************************************)
EXTENDS Integers, Sequences, FiniteSets, TLC

VARIABLES
    entities,       \* Entity Store: the ids that resolve to a stored entity
    relationships,  \* Relationship Store: the edges, in as-stored order
    pc,             \* where the request being served is
    req,            \* the request being served
    args,           \* the arguments the handler called SearchService with
    visited,        \* search: the ids reached so far
    frontier,       \* get_connections: the level awaiting expansion
    depth,          \* get_connections: levels expanded so far
    by_depth,       \* get_connections: discovered ids, one list per level
    expanded,       \* every expansion made by the search, in order
    traversed,      \* get_connections: ids of the edges fetched
    queue,          \* find_path: the FIFO frontier
    pred,           \* find_path: predecessor map, id -> [rel, from]
    dist,           \* find_path: hop count of every reached id
    result,         \* what SearchService returned to the handler
    response,       \* the HTTP response of the last request
    meals,          \* the meals table: its rows, in insertion order
    meal_req,       \* the last request made to the meals API
    meal_response,  \* the HTTP response to that request
    goals,          \* the daily_calorie_goals table: its rows, in insertion order
    users,          \* the users table: its rows, in insertion order
    user_req,       \* the last request made to the users API
    user_response,  \* the HTTP response to that request
    entity_rows     \* Entity Store: the stored columns of every stored id

mealVars == <<meals, meal_req, meal_response>>

userVars == <<users, user_req, user_response>>

\* What the graph search handlers leave alone.
outsideSearch == <<mealVars, goals, userVars, entity_rows>>

vars == <<entities, relationships, pc, req, args, visited, frontier, depth, by_depth,
          expanded, traversed, queue, pred, dist, result, response,
          meals, meal_req, meal_response, goals, users, user_req, user_response,
          entity_rows>>

(***************************************************************************)
(* Bounds of the model.                                                    *)
(***************************************************************************)
\* Entities 1..NumEntities are stored; NumEntities + 1 is an id nobody stored.
NumEntities == 7

\* Query(..., ge=1, le=5) of both handlers.
MinDepth == 1
MaxDepth == 5

StoredIds == 1..NumEntities
UnknownId == NumEntities + 1
Ids == StoredIds \cup {UnknownId}

\* max_depth values a client may send, valid or not.
Depths == (MinDepth - 2)..(MaxDepth + 1)

\* Optional[List[str]]: <<>> is None, <<T>> is the list with the tags T.
NoFilter == <<>>
TypeFilters == {NoFilter, <<{"contains"}>>, <<{"no_such_tag"}>>}

Rel(i, s, t, ty, c) ==
    [id |-> i, source_id |-> s, target_id |-> t,
     relationship_type |-> ty, confidence_score |-> c]

\* The edges a Relationship Store of the model may hold, in id order.  A chain
\* 1-2-...-7 with one edge stored against the direction of travel, a parallel
\* edge, an edge closing the cycle 1-2-3-4-5-1 and a self loop.
\* confidence_score is in hundredths.
EdgePool ==
    << Rel(1, 1, 2, "contains", 90),
       Rel(2, 2, 3, "found_in", 70),
       Rel(3, 1, 2, "found_in", 50),
       Rel(4, 5, 1, "contains", 60),
       Rel(5, 4, 3, "contains", 80),
       Rel(6, 4, 5, "found_in", 40),
       Rel(7, 5, 6, "contains", 30),
       Rel(8, 6, 7, "contains", 20),
       Rel(9, 1, 1, "contains", 10) >>

\* The entity ids connections requests are made for, and those path requests
\* start from (to any target).
StartIds == {1, 2, UnknownId}
PathStartIds == {1, UnknownId}

(***************************************************************************)
(* Relationship Store queries.                                             *)
(***************************************************************************)
Allowed(r, types) ==
    \/ types = NoFilter
    \/ r.relationship_type \in types[1]

get_outgoing_edges(entity_id, types) ==
    SelectSeq(relationships, LAMBDA r : r.source_id = entity_id /\ Allowed(r, types))

get_incoming_edges(entity_id, types) ==
    SelectSeq(relationships, LAMBDA r : r.target_id = entity_id /\ Allowed(r, types))

\* Mutant: only the outgoing edges are followed.
neighbors_OutgoingOnly(entity_id, types) ==
    LET out == get_outgoing_edges(entity_id, types)
    IN  [i \in 1..Len(out) |-> [rel |-> out[i], other |-> out[i].target_id]]

\* Both directions merged: the edges touching entity_id, each with its far end.
neighbors(entity_id, types) ==
    LET out == get_outgoing_edges(entity_id, types)
        inc == get_incoming_edges(entity_id, types)
    IN  [i \in 1..Len(out) |-> [rel |-> out[i], other |-> out[i].target_id]]
        \o [i \in 1..Len(inc) |-> [rel |-> inc[i], other |-> inc[i].source_id]]

get_entity(entity_id) == entity_id \in entities

(***************************************************************************)
(* SearchService.get_entity_connections: level-by-level expansion.         *)
(***************************************************************************)
\* Mutant: no visited-set check.
IsNew_Always(other, vis) == TRUE

\* The visited-set check made before an id joins the next frontier.
IsNew(other, vis) == other \notin vis

\* One entity's edges, in order: every far end not yet visited is discovered.
RECURSIVE Discover(_, _, _)
Discover(steps, vis, found) ==
    IF steps = <<>> THEN [vis |-> vis, found |-> found]
    ELSE LET other == Head(steps).other
         IN  IF IsNew(other, vis)
             THEN Discover(Tail(steps), vis \cup {other}, Append(found, other))
             ELSE Discover(Tail(steps), vis, found)

\* The whole frontier, in insertion order.
RECURSIVE ExpandFrontier(_, _, _, _)
ExpandFrontier(front, types, vis, found) ==
    IF front = <<>> THEN [vis |-> vis, found |-> found]
    ELSE LET d == Discover(neighbors(Head(front), types), vis, found)
         IN  ExpandFrontier(Tail(front), types, d.vis, d.found)

RECURSIVE EdgeIdsOf(_, _)
EdgeIdsOf(front, types) ==
    IF front = <<>> THEN {}
    ELSE {neighbors(Head(front), types)[i].rel.id :
              i \in 1..Len(neighbors(Head(front), types))}
         \cup EdgeIdsOf(Tail(front), types)

\* Mutant: only the level reached last is kept.
AddLevel_LastOnly(levels, found) == <<found>>

\* The ids discovered at a level are grouped under that level.
AddLevel(levels, found) == Append(levels, found)

\* Mutant: the expansion goes on until the frontier is empty, whatever the depth.
Running_NoDepthBound(front, d, max_depth) == front # <<>>

\* The search goes on while there is a frontier and depth left.
Running(front, d, max_depth) ==
    /\ front # <<>>
    /\ d < max_depth

ConnectionsRunning == Running(frontier, depth, args.max_depth)

\* The levels the expansion from front yields, run to its end.
RECURSIVE Levels(_, _, _, _, _, _)
Levels(front, vis, levels, d, types, max_depth) ==
    IF ~Running(front, d, max_depth) THEN levels
    ELSE LET e == ExpandFrontier(front, types, vis, <<>>)
         IN  Levels(e.found, e.vis, AddLevel(levels, e.found), d + 1, types, max_depth)

\* get_connections(entity_id, relationship_types, max_depth) on a stored entity:
\* the discovered ids by depth.
connected_by_depth(entity_id, types, max_depth) ==
    Levels(<<entity_id>>, {entity_id}, <<>>, 0, types, max_depth)

NotFoundResult == [error |-> "Entity not found"]

ConnectionsResult ==
    [entity_id |-> args.entity_id,
     connected_by_depth |-> by_depth,
     relationships |-> traversed]

(***************************************************************************)
(* SearchService.find_relationship_path: FIFO breadth-first search with a  *)
(* predecessor map.                                                        *)
(***************************************************************************)
\* Optional[List[RelationshipEntity]]: <<>> is None, <<p>> is the path p.
None == <<>>
Some(p) == <<p>>

EmptyMap == [x \in {} |-> 0]

\* An id at hop count max_depth is still reached, but not expanded further.
MayExpand(d, max_depth) == d < max_depth

\* Mutant: an entity found again one hop further on takes the later edge as
\* its predecessor.
RECURSIVE Enqueue_LastWins(_, _, _, _, _, _)
Enqueue_LastWins(steps, from, vis, q, pr, di) ==
    IF steps = <<>> THEN [vis |-> vis, queue |-> q, pred |-> pr, dist |-> di]
    ELSE LET other == Head(steps).other
             step  == (other :> [rel |-> Head(steps).rel, from |-> from])
         IN  IF other \notin vis
             THEN Enqueue_LastWins(Tail(steps), from, vis \cup {other}, Append(q, other),
                                   step @@ pr, (other :> di[from] + 1) @@ di)
             ELSE IF other \in DOMAIN pr /\ di[other] = di[from] + 1
                  THEN Enqueue_LastWins(Tail(steps), from, vis, q, step @@ pr, di)
                  ELSE Enqueue_LastWins(Tail(steps), from, vis, q, pr, di)

\* One dequeued entity's edges, in order: far ends not yet visited are
\* enqueued with their predecessor and hop count.
RECURSIVE Enqueue(_, _, _, _, _, _)
Enqueue(steps, from, vis, q, pr, di) ==
    IF steps = <<>> THEN [vis |-> vis, queue |-> q, pred |-> pr, dist |-> di]
    ELSE LET other == Head(steps).other
         IN  IF IsNew(other, vis)
             THEN Enqueue(Tail(steps), from, vis \cup {other}, Append(q, other),
                          (other :> [rel |-> Head(steps).rel, from |-> from]) @@ pr,
                          (other :> di[from] + 1) @@ di)
             ELSE Enqueue(Tail(steps), from, vis, q, pr, di)

\* Walk the predecessors back from n to the source; edges in source-to-target order.
RECURSIVE ReconstructPath(_, _, _)
ReconstructPath(pr, source_id, n) ==
    IF n = source_id THEN <<>>
    ELSE Append(ReconstructPath(pr, source_id, pr[n].from), pr[n].rel)

(***************************************************************************)
(* The handlers of app/api/entities.py.                                    *)
(***************************************************************************)
\* Query(ge=1, le=5): FastAPI answers 422 before the handler body runs.
ValidDepth_NoLowerBound(max_depth) == max_depth <= MaxDepth

ValidDepth(max_depth) == max_depth \in MinDepth..MaxDepth

ValidationError == [status |-> 422, detail |-> "validation error"]

RECURSIVE SumConfidence(_)
SumConfidence(path) ==
    IF path = <<>> THEN 0
    ELSE Head(path).confidence_score + SumConfidence(Tail(path))

\* RelationshipEntity.to_dict
to_dict(rel) ==
    [id |-> rel.id, source_id |-> rel.source_id, target_id |-> rel.target_id,
     relationship_type |-> rel.relationship_type,
     confidence_score |-> rel.confidence_score]

\* Mutant: the service's error is not looked for, its answer is returned as is.
ConnectionsResponse_ErrorUnchecked(connections) ==
    [status |-> 200, body |-> connections]

\* get_entity_connections, after the service call.
ConnectionsResponse(connections) ==
    IF "error" \in DOMAIN connections
    THEN [status |-> 404, detail |-> connections.error]
    ELSE [status |-> 200, body |-> connections]

\* get_relationship_path, path is None: the explicit not-found answer.
PathNotFoundBody(entity_id, target_id) ==
    [status |-> 200, source_id |-> entity_id, target_id |-> target_id,
     path |-> <<>>, path_length |-> 0, found |-> FALSE,
     message |-> "No relationship path found"]

\* Mutant: the total is divided by the number of entities on the path.
PathFoundBody_AverageOverEntities(entity_id, target_id, p) ==
    IF Len(p) = 0
    THEN [status |-> 500, detail |-> "Error finding relationship path: division by zero"]
    ELSE [status |-> 200, source_id |-> entity_id, target_id |-> target_id,
          path |-> [i \in 1..Len(p) |-> to_dict(p[i])],
          path_length |-> Len(p), found |-> TRUE,
          total_confidence |-> SumConfidence(p),
          avg_confidence |-> <<SumConfidence(p), Len(p) + 1>>]

\* get_relationship_path, path is a list.  avg_confidence is the quotient
\* total / len(path), kept exact as <<total, len>>; with an empty list the
\* division raises, and the handler's except clause answers 500.
PathFoundBody(entity_id, target_id, p) ==
    IF Len(p) = 0
    THEN [status |-> 500, detail |-> "Error finding relationship path: division by zero"]
    ELSE [status |-> 200, source_id |-> entity_id, target_id |-> target_id,
          path |-> [i \in 1..Len(p) |-> to_dict(p[i])],
          path_length |-> Len(p), found |-> TRUE,
          total_confidence |-> SumConfidence(p),
          avg_confidence |-> <<SumConfidence(p), Len(p)>>]

\* Mutant: a missing path is answered as an error status.
PathResponse_NoneIs404(entity_id, target_id, path) ==
    IF path = None
    THEN [status |-> 404, detail |-> "No relationship path found"]
    ELSE PathFoundBody(entity_id, target_id, path[1])

\* Mutant: no test for None; len(None) raises and the except clause answers 500.
PathResponse_NoneUnchecked(entity_id, target_id, path) ==
    IF path = None
    THEN [status |-> 500, detail |-> "Error finding relationship path: TypeError"]
    ELSE PathFoundBody(entity_id, target_id, path[1])

\* Mutant: path_length counts the entities on the path, not its edges.
PathResponse_LengthCountsEntities(entity_id, target_id, path) ==
    IF path = None THEN PathNotFoundBody(entity_id, target_id)
    ELSE IF Len(path[1]) = 0 THEN PathFoundBody(entity_id, target_id, path[1])
    ELSE [PathFoundBody(entity_id, target_id, path[1]) EXCEPT !.path_length = @ + 1]

\* Mutant: the edges are listed from the target back to the source.
PathResponse_Reversed(entity_id, target_id, path) ==
    IF path = None THEN PathNotFoundBody(entity_id, target_id)
    ELSE IF Len(path[1]) = 0 THEN PathFoundBody(entity_id, target_id, path[1])
    ELSE [PathFoundBody(entity_id, target_id, path[1]) EXCEPT
             !.path = [i \in 1..Len(path[1]) |-> to_dict(path[1][Len(path[1]) + 1 - i])]]

\* get_relationship_path, after the service call.
PathResponse(entity_id, target_id, path) ==
    IF path = None
    THEN PathNotFoundBody(entity_id, target_id)
    ELSE PathFoundBody(entity_id, target_id, path[1])

\* Mutant: max_depth is not passed on, the search runs with the default depth 2.
ConnectionsCall_DefaultDepth(entity_id, relationship_types, max_depth) ==
    [entity_id |-> entity_id, relationship_types |-> relationship_types,
     max_depth |-> 2]

\* Mutant: the type filter is not handed to the service.
ConnectionsCall_TypesDropped(entity_id, relationship_types, max_depth) ==
    [entity_id |-> entity_id, relationship_types |-> NoFilter,
     max_depth |-> max_depth]

\* SearchService.get_entity_connections(db, entity_id, relationship_types, max_depth)
ConnectionsCall(entity_id, relationship_types, max_depth) ==
    [entity_id |-> entity_id, relationship_types |-> relationship_types,
     max_depth |-> max_depth]

\* SearchService.find_relationship_path(db, entity_id, target_id, max_depth)
PathCall(entity_id, target_id, max_depth) ==
    [source_id |-> entity_id, target_id |-> target_id, max_depth |-> max_depth]

NoResponse == [status |-> 0]
NoRequest == [op |-> "none"]
NoCall == [max_depth |-> 0]

(***************************************************************************)
(* Init: a Relationship Store holding any sub-list of the edge pool.       *)
(***************************************************************************)
RECURSIVE Pick(_, _)
Pick(pool, keep) ==
    IF pool = <<>> THEN <<>>
    ELSE IF Head(pool).id \in keep
         THEN <<Head(pool)>> \o Pick(Tail(pool), keep)
         ELSE Pick(Tail(pool), keep)

Stores == {Pick(EdgePool, keep) : keep \in SUBSET (1..Len(EdgePool))}

\* Stores with several shortest paths: 1-2-4 and 1-3-4, the edge between 1 and
\* 3 stored in either direction (3->1 ahead of every edge leaving 1), two
\* parallel edges 1->2, and 5 one hop behind 4.
TiePool ==
    << Rel(1, 3, 1, "found_in", 50),
       Rel(2, 1, 2, "contains", 90),
       Rel(3, 1, 3, "contains", 40),
       Rel(4, 3, 4, "contains", 70),
       Rel(5, 2, 4, "contains", 80),
       Rel(6, 1, 2, "found_in", 60),
       Rel(7, 4, 5, "contains", 30) >>

TieStores == {Pick(TiePool, keep) : keep \in SUBSET (1..Len(TiePool))}

SearchIdle ==
    /\ visited = {}
    /\ frontier = <<>>
    /\ depth = 0
    /\ by_depth = <<>>
    /\ expanded = <<>>
    /\ traversed = {}
    /\ queue = <<>>
    /\ pred = EmptyMap
    /\ dist = EmptyMap

SearchIdleNext ==
    /\ visited' = {}
    /\ frontier' = <<>>
    /\ depth' = 0
    /\ by_depth' = <<>>
    /\ expanded' = <<>>
    /\ traversed' = {}
    /\ queue' = <<>>
    /\ pred' = EmptyMap
    /\ dist' = EmptyMap

NoMealRequest == [op |-> "none"]
NoMealResponse == [status |-> 0]

\* The meals API is not called: an empty table.
MealsIdle ==
    /\ meals = <<>>
    /\ meal_req = NoMealRequest
    /\ meal_response = NoMealResponse

NoUserRequest == [op |-> "none"]
NoUserResponse == [status |-> 0]

\* The users API is not called: nobody is registered, nobody has a goal.
UsersIdle ==
    /\ users = <<>>
    /\ user_req = NoUserRequest
    /\ user_response = NoUserResponse
    /\ goals = <<>>

\* The columns of a stored entity that the entity handlers write.
EntityRow(name, primary_classification) ==
    [name |-> name, primary_classification |-> primary_classification]

\* The Entity Store the graph search runs on.
SeededRows == [id \in StoredIds |-> EntityRow("seeded", "ingredient")]

Init ==
    /\ MealsIdle
    /\ UsersIdle
    /\ entity_rows = SeededRows
    /\ entities = StoredIds
    /\ relationships \in Stores
    /\ pc = "idle"
    /\ req = NoRequest
    /\ args = NoCall
    /\ SearchIdle
    /\ result = <<>>
    /\ response = NoResponse

InitTie ==
    /\ MealsIdle
    /\ UsersIdle
    /\ entity_rows = SeededRows
    /\ entities = StoredIds
    /\ relationships \in TieStores
    /\ pc = "idle"
    /\ req = NoRequest
    /\ args = NoCall
    /\ SearchIdle
    /\ result = <<>>
    /\ response = NoResponse

\* A request is served from its arrival to the closing of its session.
Accepting == pc = "idle"

(***************************************************************************)
(* GET /entities/{entity_id}/connections                                   *)
(***************************************************************************)
\* The request arrives: validation, then SearchService.get_entity_connections
\* looks the entity up and starts the expansion from it.
GetEntityConnections(entity_id, relationship_types, max_depth) ==
    /\ Accepting
    /\ req' = [op |-> "connections", entity_id |-> entity_id,
               relationship_types |-> relationship_types, max_depth |-> max_depth]
    /\ IF ~ValidDepth(max_depth)
       THEN /\ pc' = "done"
            /\ args' = NoCall
            /\ response' = ValidationError
            /\ result' = <<>>
            /\ SearchIdleNext
       ELSE /\ response' = NoResponse
            /\ args' = ConnectionsCall(entity_id, relationship_types, max_depth)
            /\ IF ~get_entity(args'.entity_id)
               THEN /\ pc' = "connections_return"
                    /\ result' = NotFoundResult
                    /\ SearchIdleNext
               ELSE /\ pc' = "connections"
                    /\ result' = <<>>
                    /\ visited' = {args'.entity_id}
                    /\ frontier' = <<args'.entity_id>>
                    /\ depth' = 0
                    /\ by_depth' = <<>>
                    /\ expanded' = <<>>
                    /\ traversed' = {}
                    /\ queue' = <<>>
                    /\ pred' = EmptyMap
                    /\ dist' = EmptyMap
    /\ UNCHANGED <<entities, relationships>>
    /\ UNCHANGED outsideSearch

\* One level: every entity of the frontier is expanded, the ids discovered
\* form the next frontier.
ExpandLevel ==
    /\ pc = "connections"
    /\ ConnectionsRunning
    /\ LET e == ExpandFrontier(frontier, args.relationship_types, visited, <<>>)
       IN  /\ visited' = e.vis
           /\ frontier' = e.found
           /\ by_depth' = AddLevel(by_depth, e.found)
    /\ depth' = depth + 1
    /\ expanded' = expanded \o frontier
    /\ traversed' = traversed \cup EdgeIdsOf(frontier, args.relationship_types)
    /\ UNCHANGED <<entities, relationships, pc, req, args, queue, pred, dist, result, response>>
    /\ UNCHANGED outsideSearch

\* The frontier is empty or max_depth levels are expanded: the service returns.
ConnectionsFinish ==
    /\ pc = "connections"
    /\ ~ConnectionsRunning
    /\ result' = ConnectionsResult
    /\ pc' = "connections_return"
    /\ UNCHANGED <<entities, relationships, req, args, visited, frontier, depth, by_depth,
                   expanded, traversed, queue, pred, dist, response>>
    /\ UNCHANGED outsideSearch

\* The handler turns the service's answer into the response.
\* Mutant: an id the service did not find is registered as a new entity.
ConnectionsRespond_GetOrCreate ==
    /\ pc = "connections_return"
    /\ response' = ConnectionsResponse(result)
    /\ pc' = "done"
    /\ entities' = IF "error" \in DOMAIN result
                   THEN entities \cup {req.entity_id}
                   ELSE entities
    /\ UNCHANGED <<relationships, req, args, visited, frontier, depth, by_depth,
                   expanded, traversed, queue, pred, dist, result>>
    /\ UNCHANGED outsideSearch

ConnectionsRespond ==
    /\ pc = "connections_return"
    /\ response' = ConnectionsResponse(result)
    /\ pc' = "done"
    /\ UNCHANGED <<entities, relationships, req, args, visited, frontier, depth, by_depth,
                   expanded, traversed, queue, pred, dist, result>>
    /\ UNCHANGED outsideSearch

(***************************************************************************)
(* GET /entities/{entity_id}/path/{target_id}                              *)
(***************************************************************************)
GetRelationshipPath(entity_id, target_id, max_depth) ==
    /\ Accepting
    /\ req' = [op |-> "path", entity_id |-> entity_id, target_id |-> target_id,
               max_depth |-> max_depth]
    /\ IF ~ValidDepth(max_depth)
       THEN /\ pc' = "done"
            /\ args' = NoCall
            /\ response' = ValidationError
            /\ result' = <<>>
            /\ SearchIdleNext
       ELSE /\ response' = NoResponse
            /\ args' = PathCall(entity_id, target_id, max_depth)
            /\ IF ~get_entity(args'.source_id) \/ ~get_entity(args'.target_id)
               THEN /\ pc' = "path_return"
                    /\ result' = None
                    /\ SearchIdleNext
               ELSE /\ pc' = "path"
                    /\ result' = <<>>
                    /\ visited' = {args'.source_id}
                    /\ queue' = <<args'.source_id>>
                    /\ pred' = EmptyMap
                    /\ dist' = (args'.source_id :> 0)
                    /\ frontier' = <<>>
                    /\ depth' = 0
                    /\ by_depth' = <<>>
                    /\ expanded' = <<>>
                    /\ traversed' = {}
    /\ UNCHANGED <<entities, relationships>>
    /\ UNCHANGED outsideSearch

\* The head of the queue is the target: the path is rebuilt and returned.
PathFound ==
    /\ pc = "path"
    /\ queue # <<>>
    /\ Head(queue) = args.target_id
    /\ result' = Some(ReconstructPath(pred, args.source_id, args.target_id))
    /\ pc' = "path_return"
    /\ UNCHANGED <<entities, relationships, req, args, visited, frontier, depth, by_depth,
                   expanded, traversed, queue, pred, dist, response>>
    /\ UNCHANGED outsideSearch

\* The head of the queue is dequeued and, unless it sits at max_depth, expanded.
PathDequeue ==
    /\ pc = "path"
    /\ queue # <<>>
    /\ Head(queue) # args.target_id
    /\ LET cur == Head(queue)
       IN  IF MayExpand(dist[cur], args.max_depth)
           THEN LET e == Enqueue(neighbors(cur, NoFilter), cur, visited,
                                 Tail(queue), pred, dist)
                IN  /\ visited' = e.vis
                    /\ queue' = e.queue
                    /\ pred' = e.pred
                    /\ dist' = e.dist
                    /\ expanded' = Append(expanded, cur)
           ELSE /\ queue' = Tail(queue)
                /\ UNCHANGED <<visited, pred, dist, expanded>>
    /\ UNCHANGED <<entities, relationships, pc, req, args, frontier, depth, by_depth,
                   traversed, result, response>>
    /\ UNCHANGED outsideSearch

\* The queue is empty: no path within max_depth hops.
PathExhausted ==
    /\ pc = "path"
    /\ queue = <<>>
    /\ result' = None
    /\ pc' = "path_return"
    /\ UNCHANGED <<entities, relationships, req, args, visited, frontier, depth, by_depth,
                   expanded, traversed, queue, pred, dist, response>>
    /\ UNCHANGED outsideSearch

PathRespond ==
    /\ pc = "path_return"
    /\ response' = PathResponse(req.entity_id, req.target_id, result)
    /\ pc' = "done"
    /\ UNCHANGED <<entities, relationships, req, args, visited, frontier, depth, by_depth,
                   expanded, traversed, queue, pred, dist, result>>
    /\ UNCHANGED outsideSearch

\* get_db: the request is answered, its session is closed (finally: db.close()).
CloseSession ==
    /\ pc = "done"
    /\ pc' = "idle"
    /\ req' = NoRequest
    /\ args' = NoCall
    /\ result' = <<>>
    /\ response' = NoResponse
    /\ SearchIdleNext
    /\ UNCHANGED <<entities, relationships>>
    /\ UNCHANGED outsideSearch

Next ==
    \/ \E e \in StartIds, t \in TypeFilters, d \in Depths : GetEntityConnections(e, t, d)
    \/ ExpandLevel
    \/ ConnectionsFinish
    \/ ConnectionsRespond
    \/ \E a \in PathStartIds, b \in Ids, d \in Depths : GetRelationshipPath(a, b, d)
    \/ PathFound
    \/ PathDequeue
    \/ PathExhausted
    \/ PathRespond
    \/ CloseSession

Spec == Init /\ [][Next]_vars

\* A search is one synchronous call inside its request: once started, the loop
\* takes its next step, and the handler answers when the call returns.
SearchStep ==
    \/ ExpandLevel
    \/ ConnectionsFinish
    \/ PathFound
    \/ PathDequeue
    \/ PathExhausted

SpecLive == Init /\ [][Next]_vars /\ WF_vars(SearchStep)

\* The same requests over the stores with several shortest paths.
SpecTie == InitTie /\ [][Next]_vars

(***************************************************************************)
(* The graph the stores describe, for stating the claims: the undirected   *)
(* view of the Relationship Store, defined on sets and independently of    *)
(* the search.                                                             *)
(***************************************************************************)
StoredRels == {relationships[i] : i \in 1..Len(relationships)}

Touches(r, n) == r.source_id = n \/ r.target_id = n

OtherEnd(r, n) == IF r.source_id = n THEN r.target_id ELSE r.source_id

\* The ids joined to n by at least one stored edge of an allowed type.
Joined(n, types) ==
    {OtherEnd(r, n) : r \in {x \in StoredRels : Touches(x, n) /\ Allowed(x, types)}}

\* The ids within k hops of the ids S.
RECURSIVE Within(_, _, _)
Within(S, k, types) ==
    IF k = 0 THEN S
    ELSE Within(S \cup UNION {Joined(n, types) : n \in S}, k - 1, types)

Reachable(a, b, types) == b \in Within({a}, Cardinality(Ids), types)

\* The least number of hops from a to b; defined when b is reachable from a.
HopDistance(a, b, types) ==
    CHOOSE k \in 0..Cardinality(Ids) :
        /\ b \in Within({a}, k, types)
        /\ \A j \in 0..(k - 1) : b \notin Within({a}, j, types)

\* path leads from cur to b, every edge joined to the one before it.
RECURSIVE IsWalk(_, _, _)
IsWalk(path, cur, b) ==
    IF path = <<>> THEN cur = b
    ELSE /\ Touches(Head(path), cur)
         /\ IsWalk(Tail(path), OtherEnd(Head(path), cur), b)

PathAnswered ==
    /\ pc = "done"
    /\ req.op = "path"
    /\ ValidDepth(req.max_depth)

PathFoundAnswer ==
    /\ PathAnswered
    /\ response.status = 200
    /\ response.found

(***************************************************************************)
(* C1: for existing entities a and b and max_depth k in 1..5, when b is    *)
(* not within k hops of a (edges taken in either direction) the path       *)
(* request is answered 200 with found=false, an empty path and             *)
(* path_length 0.                                                          *)
(***************************************************************************)
C1_NoPathWithinDepth ==
    ( /\ PathAnswered
      /\ req.entity_id \in entities
      /\ req.target_id \in entities
      /\ req.target_id \notin Within({req.entity_id}, req.max_depth, NoFilter) )
    => ( /\ response.status = 200
         /\ response.found = FALSE
         /\ response.path = <<>>
         /\ response.path_length = 0 )

\* The target is connected to the source, but more than max_depth = 5 hops away.
C1_Witness ==
    /\ PathAnswered
    /\ req.max_depth = MaxDepth
    /\ req.entity_id \in entities
    /\ req.target_id \in entities
    /\ Reachable(req.entity_id, req.target_id, NoFilter)
    /\ req.target_id \notin Within({req.entity_id}, req.max_depth, NoFilter)
    /\ response.status = 200
    /\ response.found = FALSE

(***************************************************************************)
(* C2: a path answered with found=true is a shortest path: it leads from   *)
(* a to b, path_length is its number of edges, equals the least hop count  *)
(* between a and b in the undirected view and is at most max_depth.        *)
(***************************************************************************)
C2_ShortestPath ==
    PathFoundAnswer
    => ( /\ response.path_length = Len(response.path)
         /\ IsWalk(response.path, req.entity_id, req.target_id)
         /\ Reachable(req.entity_id, req.target_id, NoFilter)
         /\ response.path_length = HopDistance(req.entity_id, req.target_id, NoFilter)
         /\ response.path_length <= req.max_depth )

\* The whole cycle 1-2-3-4-5-1 is stored: 4 is three hops from 1 one way round
\* and two hops the other way, and the answer has two edges.
C2_Witness ==
    /\ PathFoundAnswer
    /\ req.entity_id = 1
    /\ req.target_id = 4
    /\ {1, 2, 4, 5, 6} \subseteq {r.id : r \in StoredRels}
    /\ response.path_length = 2

(***************************************************************************)
(* C3: a path answered with found=true is a chain of stored relationships: *)
(* the first edge touches a, the last touches b, consecutive edges share   *)
(* an endpoint (an edge may be taken source-to-target or target-to-source) *)
(* and every edge is in the Relationship Store.                            *)
(***************************************************************************)
C3_WellFormedChain ==
    PathFoundAnswer
    => ( /\ response.path # <<>>
         /\ Touches(response.path[1], req.entity_id)
         /\ Touches(response.path[Len(response.path)], req.target_id)
         /\ \A i \in 1..(Len(response.path) - 1) :
                \E n \in Ids : Touches(response.path[i], n)
                               /\ Touches(response.path[i + 1], n)
         /\ IsWalk(response.path, req.entity_id, req.target_id)
         /\ \A i \in 1..Len(response.path) :
                \E r \in StoredRels : to_dict(r) = response.path[i] )

\* A three-edge path from 1 to 4 whose last edge, stored 4->3, is taken
\* target-to-source.
C3_Witness ==
    /\ PathFoundAnswer
    /\ req.entity_id = 1
    /\ req.target_id = 4
    /\ response.path_length = 3
    /\ response.path[3].source_id = 4
    /\ response.path[3].target_id = 3

(***************************************************************************)
(* Connections requests.                                                   *)
(***************************************************************************)
ConnectionsAnswered ==
    /\ pc = "done"
    /\ req.op = "connections"
    /\ ValidDepth(req.max_depth)

RECURSIVE Flatten(_)
Flatten(levels) ==
    IF levels = <<>> THEN <<>> ELSE Head(levels) \o Flatten(Tail(levels))

SetOf(seq) == {seq[i] : i \in 1..Len(seq)}

NoDuplicates(seq) == \A i, j \in 1..Len(seq) : seq[i] = seq[j] => i = j

\* The entities a connections answer lists.
Listed == Flatten(response.body.connected_by_depth)

DirectRequest ==
    /\ ConnectionsAnswered
    /\ req.entity_id \in entities
    /\ req.max_depth = 1
    /\ req.relationship_types = NoFilter

(***************************************************************************)
(* C4, as claimed: get_connections(e, max_depth=1) without a type filter   *)
(* lists exactly the entities joined to e by a stored edge in either       *)
(* direction, each once.  An edge e->e joins e to itself, and e is not     *)
(* listed.                                                                 *)
(***************************************************************************)
C4_Original ==
    DirectRequest
    => ( /\ response.status = 200
         /\ SetOf(Listed) = Joined(req.entity_id, NoFilter)
         /\ NoDuplicates(Listed) )

(***************************************************************************)
(* C4, amended: get_connections(e, max_depth=1) without a type filter      *)
(* lists exactly the entities other than e that are joined to e by a       *)
(* stored edge in either direction, each once, parallel edges or not.      *)
(***************************************************************************)
C4_DirectNeighbours ==
    DirectRequest
    => ( /\ response.status = 200
         /\ Len(response.body.connected_by_depth) = 1
         /\ SetOf(Listed) = Joined(req.entity_id, NoFilter) \ {req.entity_id}
         /\ NoDuplicates(Listed) )

\* Two parallel edges 1->2 and the edge 5->1 are stored: 2 and 5 are listed, once each.
C4_Witness ==
    /\ DirectRequest
    /\ req.entity_id = 1
    /\ {1, 3, 4} \subseteq {r.id : r \in StoredRels}
    /\ response.status = 200
    /\ SetOf(Listed) = {2, 5}
    /\ Len(Listed) = 2

(***************************************************************************)
(* C5: for every entity e, type filter and depths d1 < d2 in 1..5, the     *)
(* entities get_connections lists at max_depth d1 are among those it lists *)
(* at max_depth d2.                                                        *)
(***************************************************************************)
C5_MonotoneInDepth ==
    ( /\ ConnectionsAnswered
      /\ req.entity_id \in entities )
    => ( /\ response.status = 200
         /\ response.body.connected_by_depth =
                connected_by_depth(req.entity_id, req.relationship_types, req.max_depth)
         /\ \A d1 \in MinDepth..(req.max_depth - 1) :
                SetOf(Flatten(connected_by_depth(req.entity_id, req.relationship_types, d1)))
                    \subseteq SetOf(Listed) )

\* At max_depth 3 strictly more is listed than at max_depth 1, under a type filter.
C5_Witness ==
    /\ ConnectionsAnswered
    /\ req.entity_id \in entities
    /\ req.max_depth = 3
    /\ req.relationship_types # NoFilter
    /\ response.status = 200
    /\ connected_by_depth(req.entity_id, req.relationship_types, 1) # <<<<>>>>
    /\ SetOf(Flatten(connected_by_depth(req.entity_id, req.relationship_types, 1)))
           # SetOf(Listed)

(***************************************************************************)
(* C6: on any graph, cycles and parallel edges included, get_connections   *)
(* lists no entity twice and expands no entity twice, and every listed     *)
(* entity stands under the depth that is its least hop count from e over   *)
(* the allowed edges.                                                      *)
(***************************************************************************)
C6_OnceAtFirstDepth ==
    /\ (req.op = "connections" /\ pc # "idle")
       => ( /\ NoDuplicates(expanded)
            /\ NoDuplicates(Flatten(by_depth)) )
    /\ (ConnectionsAnswered /\ response.status = 200)
       => ( /\ NoDuplicates(Listed)
            /\ \A d \in 1..Len(response.body.connected_by_depth) :
                   \A n \in SetOf(response.body.connected_by_depth[d]) :
                       /\ Reachable(req.entity_id, n, req.relationship_types)
                       /\ HopDistance(req.entity_id, n, req.relationship_types) = d )

\* The cycle 1-2-3-4-5-1 with a parallel edge 1->2 and the self loop 1->1,
\* searched to depth 5.
C6_Witness ==
    /\ ConnectionsAnswered
    /\ req.entity_id = 1
    /\ req.max_depth = MaxDepth
    /\ req.relationship_types = NoFilter
    /\ {1, 2, 3, 4, 5, 6, 9} \subseteq {r.id : r \in StoredRels}
    /\ response.status = 200
    /\ Len(response.body.connected_by_depth) >= 2
    /\ Len(expanded) >= 3

(***************************************************************************)
(* C8, as claimed: for every stored edge x->y between existing entities, y *)
(* is listed by get_connections(x, max_depth=1) and x by                   *)
(* get_connections(y, max_depth=1).  For an edge x->x it is not.           *)
(***************************************************************************)
C8_Original ==
    DirectRequest
    => ( /\ response.status = 200
         /\ \A r \in StoredRels :
                (r.source_id \in entities /\ r.target_id \in entities)
                => ( /\ r.source_id = req.entity_id => r.target_id \in SetOf(Listed)
                     /\ r.target_id = req.entity_id => r.source_id \in SetOf(Listed) ) )

(***************************************************************************)
(* C8, amended: for every stored edge x->y between two different existing  *)
(* entities, y is listed by get_connections(x, max_depth=1) and x by       *)
(* get_connections(y, max_depth=1).                                        *)
(***************************************************************************)
C8_EitherDirection ==
    DirectRequest
    => ( /\ response.status = 200
         /\ \A r \in StoredRels :
                ( /\ r.source_id \in entities
                  /\ r.target_id \in entities
                  /\ r.source_id # r.target_id )
                => ( /\ r.source_id = req.entity_id => r.target_id \in SetOf(Listed)
                     /\ r.target_id = req.entity_id => r.source_id \in SetOf(Listed) ) )

\* The edge 2->3 seen from its source and the edge 1->2 seen from its target.
C8_Witness ==
    /\ DirectRequest
    /\ req.entity_id = 2
    /\ {1, 2} \subseteq {r.id : r \in StoredRels}
    /\ response.status = 200
    /\ {1, 3} \subseteq SetOf(Listed)

(***************************************************************************)
(* C9: a connections request (with a valid max_depth) for an entity_id     *)
(* that references no stored entity is answered 404.                       *)
(***************************************************************************)
C9_UnknownEntityIs404 ==
    ( /\ ConnectionsAnswered
      /\ req.entity_id \notin entities )
    => response.status = 404

C9_Witness ==
    /\ ConnectionsAnswered
    /\ req.entity_id = UnknownId
    /\ result = NotFoundResult
    /\ response.status = 404

(***************************************************************************)
(* C10: a path request (with a valid max_depth) whose source id or target  *)
(* id references no stored entity is answered with the not-found outcome,  *)
(* found=false and an empty path, not with an error status.                *)
(***************************************************************************)
C10_UnknownEndIsNotFound ==
    ( /\ PathAnswered
      /\ (req.entity_id \notin entities \/ req.target_id \notin entities) )
    => ( /\ response.status = 200
         /\ response.found = FALSE
         /\ response.path = <<>> )

\* The target is unknown while the source is stored.
C10_Witness ==
    /\ PathAnswered
    /\ req.entity_id \in entities
    /\ req.target_id = UnknownId
    /\ response.status = 200
    /\ response.found = FALSE

(***************************************************************************)
(* C7: both searches terminate on every finite graph, cycles through the   *)
(* start entity included.  get_connections returns when the frontier is    *)
(* empty or max_depth levels are expanded, and never expands more than     *)
(* max_depth levels; find_path returns when the target is dequeued or the  *)
(* frontier is empty.                                                      *)
(***************************************************************************)
Searching == pc \in {"connections", "path"}

Returned == pc \in {"connections_return", "path_return"}

C7_SearchesTerminate ==
    /\ Searching ~> Returned
    /\ [](pc = "connections" => (depth <= args.max_depth /\ Len(by_depth) = depth))
    /\ [][(pc = "connections" /\ pc' = "connections_return")
            => (frontier = <<>> \/ depth = args.max_depth)]_vars
    /\ [][(pc = "path" /\ pc' = "path_return")
            => (queue = <<>> \/ Head(queue) = args.target_id)]_vars

\* The cycle 1-2-3-4-5-1 is stored and searched from 1 with max_depth 5: the
\* search returned with an empty frontier after fewer than 5 levels.
C7_Witness ==
    /\ pc = "connections_return"
    /\ req.entity_id = 1
    /\ req.max_depth = MaxDepth
    /\ req.relationship_types = NoFilter
    /\ {1, 2, 4, 5, 6} \subseteq {r.id : r \in StoredRels}
    /\ frontier = <<>>
    /\ depth < MaxDepth
    /\ depth >= 2

(***************************************************************************)
(* Requests that name an entity id no stored entity has.                   *)
(***************************************************************************)
UnknownIdRequest ==
    /\ pc = "done"
    /\ req.op \in {"connections", "path"}
    /\ req.max_depth \in MinDepth..MaxDepth
    /\ \/ req.entity_id \notin entities
       \/ (req.op = "path" /\ req.target_id \notin entities)

ServiceCalled == pc \in {"connections", "connections_return", "path", "path_return"}

C12_DepthValidatedBeforeSearch ==
    /\ ( /\ pc = "done"
         /\ req.op \in {"connections", "path"}
         /\ req.max_depth \notin MinDepth..MaxDepth )
       => ( /\ response = ValidationError
            /\ args = NoCall
            /\ expanded = <<>> )
    /\ ServiceCalled => args # NoCall
    /\ args # NoCall => args.max_depth \in MinDepth..MaxDepth

\* A path request between stored entities with max_depth 0 was refused.
C12_Witness ==
    /\ pc = "done"
    /\ req.op = "path"
    /\ req.entity_id \in entities
    /\ req.target_id \in entities
    /\ req.max_depth = MinDepth - 1
    /\ response.status = 422
    /\ args = NoCall

(***************************************************************************)
(* The edges the request's type filter lets through, and what they reach.  *)
(***************************************************************************)
FilterAllows(r) ==
    \/ req.relationship_types = NoFilter
    \/ r.relationship_type \in req.relationship_types[1]

TypedJoined(n) ==
    {OtherEnd(r, n) : r \in {x \in StoredRels : Touches(x, n) /\ FilterAllows(x)}}

RECURSIVE TypedWithin(_, _)
TypedWithin(S, k) ==
    IF k = 0 THEN S
    ELSE TypedWithin(S \cup UNION {TypedJoined(n) : n \in S}, k - 1)

(***************************************************************************)
(* C13: with a relationship_types filter T, get_connections traverses only *)
(* edges whose type is in T (all edges when the filter is unset), and      *)
(* lists exactly the entities reachable from the start within max_depth    *)
(* hops over such edges.  A filter of unknown tags only is not refused and *)
(* yields an empty neighbour set, and so does an entity without            *)
(* relationships.                                                          *)
(***************************************************************************)
C13_OnlyFilteredEdges ==
    ( /\ ConnectionsAnswered
      /\ req.entity_id \in entities )
    => ( /\ response.status = 200
         /\ \A r \in StoredRels :
                r.id \in response.body.relationships => FilterAllows(r)
         /\ SetOf(Listed) =
                TypedWithin({req.entity_id}, req.max_depth) \ {req.entity_id}
         /\ (\A r \in StoredRels : ~FilterAllows(r)) => Listed = <<>>
         /\ (\A r \in StoredRels : ~Touches(r, req.entity_id)) => Listed = <<>> )

\* Stored: 1->2 "contains" and 2->3 "found_in".  Under the filter {"contains"}
\* the search from 1 to depth 2 lists 2 and stops there.
C13_Witness ==
    /\ ConnectionsAnswered
    /\ req.entity_id = 1
    /\ req.max_depth = 2
    /\ req.relationship_types = <<{"contains"}>>
    /\ {1, 2} \subseteq {r.id : r \in StoredRels}
    /\ response.status = 200
    /\ 2 \in SetOf(Listed)
    /\ 3 \notin SetOf(Listed)
    /\ 2 \notin response.body.relationships

\* Edges are stored and touch entity 1, and the filter names an unknown tag only.
C13_WitnessUnknownTag ==
    /\ ConnectionsAnswered
    /\ req.entity_id = 1
    /\ req.relationship_types = <<{"no_such_tag"}>>
    /\ 1 \in {r.id : r \in StoredRels}
    /\ response.status = 200
    /\ Listed = <<>>

(***************************************************************************)
(* C14: for every stored entity a and every max_depth in 1..5 the path     *)
(* request from a to a is answered with a well-defined trivial result of   *)
(* path length 0; it does not fail.                                        *)
(***************************************************************************)
C14_TrivialPath ==
    ( /\ PathAnswered
      /\ req.entity_id \in entities
      /\ req.target_id = req.entity_id )
    => ( /\ response.status = 200
         /\ response.path_length = 0 )

(***************************************************************************)
(* Confidence scores are kept in hundredths: 90 is 0.9.  A quotient is the *)
(* pair <<numerator, denominator>>.                                        *)
(***************************************************************************)
RECURSIVE ConfidenceUpTo(_, _)
ConfidenceUpTo(path, n) ==
    IF n = 0 THEN 0 ELSE ConfidenceUpTo(path, n - 1) + path[n].confidence_score

QuotientIs(q, num, den) == q[2] # 0 /\ q[1] * den = num * q[2]

ExampleRequest ==
    /\ PathAnswered
    /\ req.entity_id = 1
    /\ req.target_id = 3
    /\ req.max_depth = 2
    /\ {1, 2} \subseteq {r.id : r \in StoredRels}

(***************************************************************************)
(* C15: on a successful path request total_confidence is the sum of        *)
(* confidence_score over the edges of the returned path and avg_confidence *)
(* is total_confidence divided by the number of edges.  With 1->2 (0.9)    *)
(* and 2->3 (0.7) stored, the path request from 1 to 3 with max_depth 2    *)
(* finds [1->2, 2->3]: path_length 2, total 1.6, average 0.8.              *)
(***************************************************************************)
C15_ConfidenceTotals ==
    /\ PathFoundAnswer
       => ( /\ response.total_confidence =
                   ConfidenceUpTo(response.path, Len(response.path))
            /\ QuotientIs(response.avg_confidence,
                          response.total_confidence, Len(response.path)) )
    /\ ExampleRequest
       => ( /\ response.status = 200
            /\ response.found
            /\ [i \in 1..Len(response.path) |-> response.path[i].id] = <<1, 2>>
            /\ response.path_length = 2
            /\ response.total_confidence = 160
            /\ QuotientIs(response.avg_confidence, 80, 1) )

\* The example itself, with the parallel edge 1->2 (0.5) stored as well.
C15_Witness ==
    /\ ExampleRequest
    /\ 3 \in {r.id : r \in StoredRels}
    /\ response.found
    /\ response.total_confidence = 160
    /\ response.avg_confidence = <<160, 2>>

(***************************************************************************)
(* The order in which a breadth-first search from a meets the entities:    *)
(* an entity d hops away is keyed by the key of the parent that meets it   *)
(* first, followed by the place of the first edge to it among that         *)
(* parent's edges.  Keys of one level are compared place by place.         *)
(***************************************************************************)
EdgeIndex(p, x) ==
    LET nb == neighbors(p, NoFilter)
    IN  CHOOSE i \in 1..Len(nb) :
            /\ nb[i].other = x
            /\ \A j \in 1..(i - 1) : nb[j].other # x

LexLess(s, t) ==
    \E i \in 1..Len(s) : s[i] < t[i] /\ \A j \in 1..(i - 1) : s[j] = t[j]

\* The entities one hop before x on a shortest way from a, x being d hops away.
Parents(a, x, d) ==
    {p \in Joined(x, NoFilter) :
        /\ p \in Within({a}, d - 1, NoFilter)
        /\ HopDistance(a, p, NoFilter) = d - 1}

RECURSIVE OrderKey(_, _, _)
RECURSIVE FirstParent(_, _, _)
OrderKey(a, x, d) ==
    IF d = 0 THEN <<>>
    ELSE LET p == FirstParent(a, x, d)
         IN  Append(OrderKey(a, p, d - 1), EdgeIndex(p, x))

FirstParent(a, x, d) ==
    CHOOSE p \in Parents(a, x, d) :
        \A q \in Parents(a, x, d) \ {p} :
            LexLess(OrderKey(a, p, d - 1), OrderKey(a, q, d - 1))

\* The ids of the edges of the shortest path that is met first.
RECURSIVE TieBreakPath(_, _, _)
TieBreakPath(a, x, d) ==
    IF d = 0 THEN <<>>
    ELSE LET p == FirstParent(a, x, d)
         IN  Append(TieBreakPath(a, p, d - 1),
                    neighbors(p, NoFilter)[EdgeIndex(p, x)].rel.id)

AnsweredEdgeIds == [i \in 1..Len(response.path) |-> response.path[i].id]

(***************************************************************************)
(* C16: the path find_path returns is a function of the stored data and    *)
(* the arguments alone, so two runs on identical data return the same      *)
(* path: among several shortest paths it is the one the frontier's         *)
(* insertion order meets first, every entity's edges taken in their stable *)
(* iteration order.                                                        *)
(***************************************************************************)
C16_FirstDiscoveredWins ==
    ( /\ PathFoundAnswer
      /\ req.entity_id # req.target_id )
    => AnsweredEdgeIds =
           TieBreakPath(req.entity_id, req.target_id,
                        HopDistance(req.entity_id, req.target_id, NoFilter))

\* Three shortest paths from 1 to 4: over 3, whose edge 3->1 is stored first,
\* and over 2 by either of the parallel edges.  The outgoing edge 1->2 stored
\* first is followed first, and 2 is dequeued before 3.
C16_Witness ==
    /\ PathFoundAnswer
    /\ req.entity_id = 1
    /\ req.target_id = 4
    /\ {1, 2, 4, 5, 6} \subseteq {r.id : r \in StoredRels}
    /\ relationships[1].source_id = 3
    /\ AnsweredEdgeIds = <<2, 5>>

(***************************************************************************)
(* Nothing of a served request is left when the next one arrives.          *)
(***************************************************************************)
RequestIdle ==
    /\ req = NoRequest
    /\ args = NoCall
    /\ result = <<>>
    /\ response = NoResponse
    /\ SearchIdle

MaxMeals == 4
NumDates == 2
DefaultGoal == 2000

Users == {1, 2}
Dates == 1..NumDates
MealIds == 1..(MaxMeals + 1)

searchVars == <<entities, relationships, pc, req, args, visited, frontier, depth, by_depth,
                expanded, traversed, queue, pred, dist, result, response>>

\* What the meals handlers leave alone.
outsideMeals == <<searchVars, entity_rows, userVars>>

\* A row of the meals table.
Meal(i, u, n, t, src, d, c) ==
    [id |-> i, user_id |-> u, name |-> n, meal_type |-> t, source |-> src,
     date_logged |-> d, calories |-> c]

\* The rows a meals table of the model may start with: two templates of user
\* 1 (one without calories), a meal user 1 has logged, a template of user 2.
MealPool ==
    << Meal(1, 1, "Oatmeal", "breakfast", "GENERATED", None, Some(350)),
       Meal(2, 1, "Salad", "lunch", "GENERATED", None, None),
       Meal(3, 1, "Oatmeal", "breakfast", "LOGGED", Some(1), Some(350)),
       Meal(4, 2, "Curry", "dinner", "GENERATED", None, Some(600)) >>

MealTables == {Pick(MealPool, keep) : keep \in SUBSET (1..Len(MealPool))}

\* db.query(Meal).filter(Meal.id == meal_id, Meal.user_id == current_user.id).first()
find_meal(meal_id, user_id) ==
    LET rows == SelectSeq(meals, LAMBDA m : m.id = meal_id /\ m.user_id = user_id)
    IN  IF rows = <<>> THEN None ELSE Some(Head(rows))

\* Mutant: any meal of the caller is taken for a template.
IsTemplate_AnySource(m) == TRUE

\* template.source != MealSource.GENERATED is refused.
IsTemplate(m) == m.source = "GENERATED"

\* id = Column(Integer, primary_key=True, autoincrement=True)
NextMealId ==
    IF meals = <<>> THEN 1
    ELSE 1 + CHOOSE x \in {meals[i].id : i \in 1..Len(meals)} :
                 \A i \in 1..Len(meals) : meals[i].id <= x

\* Meal(user_id=current_user.id, name=template.name, ..., source=LOGGED, date_logged=day)
LoggedCopy(template, user_id, day) ==
    [id |-> NextMealId, user_id |-> user_id, name |-> template.name,
     meal_type |-> template.meal_type, source |-> "LOGGED",
     date_logged |-> Some(day), calories |-> template.calories]

\* Mutant: the template row itself is marked as logged.
StoreAfterLog_InPlace(template, user_id, day) ==
    [i \in 1..Len(meals) |->
        IF meals[i].id = template.id
        THEN [meals[i] EXCEPT !.source = "LOGGED", !.date_logged = Some(day)]
        ELSE meals[i]]

\* db.add(logged_meal); db.commit()
StoreAfterLog(template, user_id, day) ==
    Append(meals, LoggedCopy(template, user_id, day))

MealNotFound == [status |-> 404, detail |-> "Meal template not found"]
NotATemplate == [status |-> 400, detail |-> "Only GENERATED meals can be logged."]

\* schemas.MealResponse: calories: float is required, None is a validation
\* error, which log_meal_from_template's except clause answers with 500.
MealResponse(m) ==
    IF m.calories = None
    THEN [status |-> 500, detail |-> "Error logging meal: validation error"]
    ELSE [status |-> 200, body |-> m]

RECURSIVE total_consumed(_)
total_consumed(rows) ==
    IF rows = <<>> THEN 0
    ELSE (IF Head(rows).calories = None THEN 0 ELSE Head(rows).calories[1])
         + total_consumed(Tail(rows))

\* What log_meal_for_today hands to DailyCaloriesSummaryResponse.
SummaryFields(table, user_id, today) ==
    LET todays_meals ==
            SelectSeq(table, LAMBDA m : m.user_id = user_id /\ m.date_logged = Some(today))
        calorie_goal == SelectSeq(goals, LAMBDA g : g.user_id = user_id)
        daily_goal == IF calorie_goal = <<>> THEN DefaultGoal
                      ELSE Head(calorie_goal).goal_calories
    IN  [daily_goal |-> daily_goal,
         total_consumed |-> total_consumed(todays_meals),
         remaining |-> daily_goal - total_consumed(todays_meals),
         logged_meals_today |-> [i \in 1..Len(todays_meals) |-> todays_meals[i].id]]

\* schemas.DailyCaloriesSummaryResponse: every field is required, macros
\* included; without it the constructor raises and the request fails.
DailyCaloriesSummaryResponse(fields) ==
    IF {"daily_goal", "total_consumed", "remaining", "logged_meals_today", "macros"}
           \subseteq DOMAIN fields
    THEN [status |-> 200, body |-> fields]
    ELSE [status |-> 500, detail |-> "Internal Server Error"]

(***************************************************************************)
(* POST /meals/{meal_id}/log                                               *)
(***************************************************************************)
LogMealForToday(current_user, meal_id, today) ==
    /\ meal_req' = [op |-> "log_meal_for_today", user_id |-> current_user,
                    meal_id |-> meal_id, day |-> today]
    /\ LET template == find_meal(meal_id, current_user)
       IN  IF template = None
           THEN /\ meal_response' = MealNotFound
                /\ meals' = meals
           ELSE IF ~IsTemplate(template[1])
           THEN /\ meal_response' = NotATemplate
                /\ meals' = meals
           ELSE /\ Len(meals) < MaxMeals
                /\ meals' = StoreAfterLog(template[1], current_user, today)
                /\ meal_response' =
                       DailyCaloriesSummaryResponse(SummaryFields(meals', current_user, today))
    /\ UNCHANGED <<goals, outsideMeals>>

(***************************************************************************)
(* POST /meals/log-from-template/{template_id}                             *)
(***************************************************************************)
LogMealFromTemplate(current_user, template_id, log_date) ==
    /\ meal_req' = [op |-> "log_meal_from_template", user_id |-> current_user,
                    meal_id |-> template_id, day |-> log_date]
    /\ LET template == find_meal(template_id, current_user)
       IN  IF template = None
           THEN /\ meal_response' = MealNotFound
                /\ meals' = meals
           ELSE IF ~IsTemplate(template[1])
           THEN /\ meal_response' = NotATemplate
                /\ meals' = meals
           ELSE /\ Len(meals) < MaxMeals
                /\ meals' = StoreAfterLog(template[1], current_user, log_date)
                /\ meal_response' = MealResponse(meals'[Len(meals')])
    /\ UNCHANGED <<goals, outsideMeals>>

\* No graph search is in progress and the Relationship Store is empty.
InitMeals ==
    /\ meals \in MealTables
    /\ meal_req = NoMealRequest
    /\ meal_response = NoMealResponse
    /\ UsersIdle
    /\ entity_rows = SeededRows
    /\ entities = StoredIds
    /\ relationships = <<>>
    /\ pc = "idle"
    /\ req = NoRequest
    /\ args = NoCall
    /\ SearchIdle
    /\ result = <<>>
    /\ response = NoResponse

NextMeals ==
    \/ \E u \in Users, m \in MealIds, d \in Dates : LogMealForToday(u, m, d)
    \/ \E u \in Users, m \in MealIds, d \in Dates : LogMealFromTemplate(u, m, d)

SpecMeals == InitMeals /\ [][NextMeals]_vars

(***************************************************************************)
(* What the last request to the meals API asked for, seen from the table   *)
(* it was made on.                                                         *)
(***************************************************************************)
RowsOf(table, meal_id, user_id) ==
    {i \in 1..Len(table) : table[i].id = meal_id /\ table[i].user_id = user_id}

\* The request just made names a template of its caller.
LogsOwnTemplate ==
    \E i \in RowsOf(meals, meal_req'.meal_id, meal_req'.user_id) :
        meals[i].source = "GENERATED"

(***************************************************************************)
(* C19: every call of log_meal_for_today or log_meal_from_template for a   *)
(* template (source GENERATED) of the caller adds exactly one new Meal     *)
(* row, with a fresh id, source LOGGED, date_logged the day of the call    *)
(* (today, resp. the requested log_date) and name, meal_type and calories  *)
(* copied from the template; every row already stored, the template        *)
(* included, is left as it was, so the template can be logged again.       *)
(***************************************************************************)
C19_LogAddsOneCopy ==
    [][LogsOwnTemplate
       => ( /\ Len(meals') = Len(meals) + 1
            /\ \A i \in 1..Len(meals) : meals'[i] = meals[i]
            /\ LET new == meals'[Len(meals')]
                   t   == meals[CHOOSE i \in RowsOf(meals, meal_req'.meal_id,
                                                     meal_req'.user_id) : TRUE]
               IN  /\ \A i \in 1..Len(meals) : meals[i].id # new.id
                   /\ new.user_id = meal_req'.user_id
                   /\ new.source = "LOGGED"
                   /\ new.date_logged = <<meal_req'.day>>
                   /\ new.name = t.name
                   /\ new.meal_type = t.meal_type
                   /\ new.calories = t.calories )]_vars

\* The table began with the template 1 alone; it was logged once for each day,
\* the second time through log-from-template, and is still a template.
C19_Witness ==
    /\ Len(meals) = 3
    /\ meals[1] = MealPool[1]
    /\ meals[2].source = "LOGGED"
    /\ meals[3].source = "LOGGED"
    /\ meals[2].id # meals[3].id
    /\ meals[2].date_logged # meals[3].date_logged
    /\ meals[3].name = "Oatmeal"
    /\ meals[3].calories = <<350>>
    /\ meal_req.op = "log_meal_from_template"
    /\ meal_req.meal_id = 1
    /\ meal_response.status = 200

(***************************************************************************)
(* C20: logging from a template is refused without changing any Meal row:  *)
(* with 404 when the meal id names no row or a row of another user, with   *)
(* 400 when it names a meal of the caller whose source is not GENERATED.   *)
(* The table changes only when a template of the caller is logged, so a    *)
(* LOGGED meal is never used as a template.                                *)
(***************************************************************************)
C20_RefusedWithoutChange ==
    [][LET rows == RowsOf(meals, meal_req'.meal_id, meal_req'.user_id)
       IN  /\ rows = {}
              => (meal_response'.status = 404 /\ meals' = meals)
           /\ (\E i \in rows : meals[i].source # "GENERATED")
              => (meal_response'.status = 400 /\ meals' = meals)
           /\ meals' # meals
              => (\E i \in rows : meals[i].source = "GENERATED")]_vars

\* The caller asked to log a meal that is itself the copy made by an earlier
\* logging, and was refused with 400.
C20_Witness ==
    /\ meal_response.status = 400
    /\ \E i \in RowsOf(meals, meal_req.meal_id, meal_req.user_id) :
           /\ meals[i].source = "LOGGED"
           /\ meals[i].id > Len(MealPool)

\* The caller asked to log a template of another user, and was refused with 404.
C20_WitnessOtherUser ==
    /\ meal_response.status = 404
    /\ meal_req.user_id = 1
    /\ \E i \in 1..Len(meals) :
           /\ meals[i].id = meal_req.meal_id
           /\ meals[i].user_id = 2
           /\ meals[i].source = "GENERATED"

(***************************************************************************)
(* User preferences, the onboarding survey and the meal plans,             *)
(* app/api/users.py, app/api/nutrition.py and app/services/llm_service.py: *)
(*   PUT  /users/me                  update_current_user_profile           *)
(*   POST /users/me/health-goals     update_health_goals                   *)
(*   POST /users/me/survey           submit_user_survey                    *)
(*   POST /users/me/llm-meal-plan    generate_llm_meal_plan_endpoint       *)
(*   POST /users/me/meal-plan        generate_meal_plan                    *)
(*   GET  /users/{user_id}/nutrition get_user_nutrition                    *)
(* User.preferences holds the Python value last assigned to it: None, a    *)
(* dict, or the str that json.dumps made of a dict.                        *)
(***************************************************************************)
\* A Python dict with these items.
Dict(items) == [type |-> "dict", items |-> items]

\* The Python str holding the JSON text of a dict with these items.
Str(items) == [type |-> "str", items |-> items]

json_dumps(items) == Str(items)

json_loads(text) == text.items

IsDict(value) == value # None /\ value[1].type = "dict"

IsStr(value) == value # None /\ value[1].type = "str"

\* Python truth of a preferences value: None and {} are false; the text that
\* json.dumps writes is never empty, so a str is true.
Truthy(value) == value # None /\ (IsStr(value) \/ DOMAIN value[1].items # {})

\* dict.get(key): None when the key is absent.
DictGet(items, key) == IF key \in DOMAIN items THEN Some(items[key]) ELSE None

\* A row of the users table.
User(id, email, password, is_active, is_verified, preferences) ==
    [id |-> id, email |-> email, password |-> password, is_active |-> is_active,
     is_verified |-> is_verified, preferences |-> preferences]

\* The row index of the user with this id, 0 when there is none.
UserIndex(table, id) ==
    IF \E i \in 1..Len(table) : table[i].id = id
    THEN CHOOSE i \in 1..Len(table) : table[i].id = id
    ELSE 0

SetPreferences(table, id, value) ==
    [i \in 1..Len(table) |->
        IF table[i].id = id THEN [table[i] EXCEPT !.preferences = value] ELSE table[i]]

(***************************************************************************)
(* Text is a sequence of characters, so that int() and the substring tests *)
(* of the prompt builder are computed on what the user sent.               *)
(***************************************************************************)
Digits == <<"0", "1", "2", "3", "4", "5", "6", "7", "8", "9">>

IsDigit(char) == \E i \in 1..Len(Digits) : Digits[i] = char

DigitValue(char) == (CHOOSE i \in 1..Len(Digits) : Digits[i] = char) - 1

\* str.lower() on the letters the texts of the model use.
LowerChar(char) ==
    CASE char = "M" -> "m"
      [] char = "S" -> "s"
      [] char = "A" -> "a"
      [] char = "D" -> "d"
      [] OTHER -> char

lower(text) == [i \in 1..Len(text) |-> LowerChar(text[i])]

\* needle in text
Contains(text, needle) ==
    \E i \in 1..(Len(text) - Len(needle) + 1) :
        SubSeq(text, i, i + Len(needle) - 1) = needle

\* int(text) succeeds: decimal digits only.
ParsesAsInt(text) == Len(text) > 0 /\ \A i \in 1..Len(text) : IsDigit(text[i])

RECURSIVE int(_)
int(text) ==
    IF Len(text) = 0 THEN 0
    ELSE 10 * int(SubSeq(text, 1, Len(text) - 1)) + DigitValue(text[Len(text)])

\* The mealsPerDay texts a client sends.
Three == <<"3">>
Five == <<"5">>
Eleven == <<"1", "1">>
ThreeMealsTwoSnacks ==
    <<"3", "-", "m", "e", "a", "l", "s", "-", "2", "-", "s", "n", "a", "c", "k", "s">>
ThreeMealsTwoSnacksCapitalised ==
    <<"3", "-", "M", "e", "a", "l", "s", "-", "2", "-", "S", "n", "a", "c", "k", "s">>

MealsPerDayTexts == {Three, Five, Eleven, ThreeMealsTwoSnacks, ThreeMealsTwoSnacksCapitalised}

(***************************************************************************)
(* The survey: schemas/user.py UserSurveyData and submit_user_survey.      *)
(***************************************************************************)
Survey(healthPillars, mealsPerDay) ==
    [healthPillars |-> healthPillars, mealsPerDay |-> mealsPerDay]

\* HEALTH_PILLARS, name -> id.
HEALTH_PILLARS == [name \in {"Increased Energy"} |-> 1] @@ [name \in {"Better Sleep"} |-> 2]

PillarLists == {<<"Increased Energy">>, <<"Better Sleep">>, <<"Vitality">>, <<>>}

Surveys == {Survey(p, m) : p \in PillarLists, m \in MealsPerDayTexts}

\* validate_meals_per_day: int(v) must succeed and lie in 1..10.
validate_meals_per_day(v) == ParsesAsInt(v) /\ int(v) >= 1 /\ int(v) <= 10

\* Pydantic accepts the survey body.
SurveyValid(survey) ==
    /\ Len(survey.healthPillars) >= 1
    /\ validate_meals_per_day(survey.mealsPerDay)

\* The request body was rejected by its schema.
Unprocessable == [status |-> 422, detail |-> "validation error"]

\* UserProfileResponse.model_validate: preferences is Optional[Dict[str, Any]].
UserProfileResponse(row, failure) ==
    IF row.preferences = None \/ IsDict(row.preferences)
    THEN [status |-> 200, id |-> row.id, preferences |-> row.preferences]
    ELSE [status |-> 500, detail |-> failure]

\* The items a handler works on after "json.loads if str, else value or {}".
ParsedItems(value) ==
    IF value = None THEN EmptyMap
    ELSE IF IsStr(value) THEN json_loads(value[1])
    ELSE value[1].items

SubmitUserSurvey(current_user, survey) ==
    /\ user_req' = [op |-> "submit_user_survey", user_id |-> current_user, survey |-> survey]
    /\ LET row == users[UserIndex(users, current_user)]
           names == survey.healthPillars
           preferences ==
               ("health_goals" :> [i \in 1..Len(names) |-> HEALTH_PILLARS[names[i]]])
               @@ ("survey_data" :> survey)
               @@ ParsedItems(row.preferences)
       IN  IF ~SurveyValid(survey)
           THEN /\ user_response' = Unprocessable
                /\ users' = users
           ELSE IF \E i \in 1..Len(names) : names[i] \notin DOMAIN HEALTH_PILLARS
           THEN /\ user_response' = [status |-> 400, detail |-> "Invalid health pillar name"]
                /\ users' = users
           ELSE /\ users' = SetPreferences(users, current_user, Some(json_dumps(preferences)))
                /\ user_response' =
                       UserProfileResponse(users'[UserIndex(users', current_user)],
                                           "Error submitting survey")
    /\ UNCHANGED <<searchVars, entity_rows, mealVars, goals>>

(***************************************************************************)
(* update_health_goals and update_current_user_profile.                    *)
(***************************************************************************)
GoalLists == {<<1>>, <<2, 3>>, <<9>>}

\* HealthGoalsUpdate: 1 to 8 ids, each in 1..8, no duplicates.
GoalsValid(selectedGoals) ==
    /\ Len(selectedGoals) >= 1
    /\ Len(selectedGoals) <= 8
    /\ \A i \in 1..Len(selectedGoals) : selectedGoals[i] >= 1 /\ selectedGoals[i] <= 8
    /\ \A i, j \in 1..Len(selectedGoals) : selectedGoals[i] = selectedGoals[j] => i = j

\* preferences = current_user.preferences or {}; preferences["health_goals"] = ...
\* Item assignment on a str raises TypeError, answered 500 after a rollback.
UpdateHealthGoals(current_user, selectedGoals) ==
    /\ user_req' = [op |-> "update_health_goals", user_id |-> current_user,
                    selectedGoals |-> selectedGoals]
    /\ LET row == users[UserIndex(users, current_user)]
       IN  IF ~GoalsValid(selectedGoals)
           THEN /\ user_response' = Unprocessable
                /\ users' = users
           ELSE IF IsStr(row.preferences)
           THEN /\ user_response' = [status |-> 500, detail |-> "Error updating health goals"]
                /\ users' = users
           ELSE /\ users' = SetPreferences(users, current_user,
                       Some(Dict(("health_goals" :> selectedGoals) @@ ParsedItems(row.preferences))))
                /\ user_response' =
                       UserProfileResponse(users'[UserIndex(users', current_user)],
                                           "Error updating health goals")
    /\ UNCHANGED <<searchVars, entity_rows, mealVars, goals>>

\* The fields of schemas/user.py UserUpdate.
UserUpdateFields == {"username", "first_name", "last_name", "preferences"}

\* The attributes of user_data that update_current_user_profile reads, in order.
ProfileReads ==
    <<"username", "first_name", "last_name", "age", "height_cm", "weight_kg",
      "date_of_birth", "gender", "activity_level", "health_goals",
      "dietary_preferences", "preferences">>

\* The preferences a client may send with PUT /users/me: null or a dict.
ProfilePreferences == {None, Some(Dict(EmptyMap)), Some(Dict("calorie_goal" :> 1800))}

\* Reading an attribute the schema does not declare raises AttributeError,
\* answered 500 after a rollback: nothing the handler assigned is stored.
UpdateCurrentUserProfile(current_user, preferences) ==
    /\ user_req' = [op |-> "update_current_user_profile", user_id |-> current_user,
                    preferences |-> preferences]
    /\ IF \E i \in 1..Len(ProfileReads) : ProfileReads[i] \notin UserUpdateFields
       THEN /\ user_response' = [status |-> 500, detail |-> "Error updating user profile"]
            /\ users' = users
       ELSE /\ users' = SetPreferences(users, current_user, preferences)
            /\ user_response' =
                   UserProfileResponse(users'[UserIndex(users', current_user)],
                                       "Error updating user profile")
    /\ UNCHANGED <<searchVars, entity_rows, mealVars, goals>>

(***************************************************************************)
(* The readers of the preferences.                                         *)
(***************************************************************************)
\* get_user_nutrition: preferences = user.preferences or {}; preferences.get(...)
\* A str has no get: AttributeError, which nothing catches.
GetUserNutrition(current_user, user_id) ==
    /\ user_req' = [op |-> "get_user_nutrition", user_id |-> current_user, target |-> user_id]
    /\ LET index == UserIndex(users, user_id)
           value == users[index].preferences
           calorie_goal == DictGet(ParsedItems(value), "calorie_goal")
       IN  user_response' =
               IF current_user # user_id
               THEN [status |-> 403, detail |-> "Not authorized"]
               ELSE IF index = 0
               THEN [status |-> 404, detail |-> "User not found"]
               ELSE IF IsStr(value)
               THEN [status |-> 500, detail |-> "Internal Server Error"]
               ELSE [status |-> 200,
                     target |-> IF calorie_goal = None THEN 0 ELSE calorie_goal[1]]
    /\ UNCHANGED <<users, searchVars, entity_rows, mealVars, goals>>

\* generate_meal_plan: preferences = current_user.preferences or {};
\* preferences.get("health_goals", []) inside try/except Exception -> 500.
GenerateMealPlan(current_user) ==
    /\ user_req' = [op |-> "generate_meal_plan", user_id |-> current_user]
    /\ LET value == users[UserIndex(users, current_user)].preferences
           user_health_goals == DictGet(ParsedItems(value), "health_goals")
       IN  user_response' =
               IF IsStr(value)
               THEN [status |-> 500, detail |-> "Error generating meal plan"]
               ELSE [status |-> 200,
                     health_goals |-> IF user_health_goals = None THEN <<>>
                                      ELSE user_health_goals[1]]
    /\ UNCHANGED <<users, searchVars, entity_rows, mealVars, goals>>

(***************************************************************************)
(* The meal plan prompt, services/llm_service.py.                          *)
(***************************************************************************)
Snack == <<"s", "n", "a", "c", "k">>

FiveItems == <<"breakfast", "snack", "lunch", "snack", "dinner">>

ThreeItems == <<"breakfast", "lunch", "dinner">>

\* The branch of the guidance text: how many items a day it mandates (0 when
\* it names no number) and the order of their types (empty when it fixes none).
Guidance(structure, items, order) ==
    [structure |-> structure, items |-> items, order |-> order]

_get_meal_structure_guidance(meals_per_day) ==
    LET mpd_lower == lower(meals_per_day)
    IN  IF Contains(mpd_lower, <<"3">>) /\ ~Contains(mpd_lower, Snack)
        THEN Guidance("3 MEALS per day with NO snacks", 3, ThreeItems)
        ELSE IF Contains(mpd_lower, <<"3">>) /\ Contains(mpd_lower, <<"2">>)
                /\ Contains(mpd_lower, Snack)
        THEN Guidance("3 MEALS + 2 SNACKS per day", 5, FiveItems)
        ELSE IF Contains(mpd_lower, <<"5">>)
                \/ (Contains(mpd_lower, <<"4">>) /\ Contains(mpd_lower, Snack))
        THEN Guidance("5 EATING OCCASIONS per day", 5, <<>>)
        ELSE IF Contains(mpd_lower, <<"6">>)
        THEN Guidance("6 SMALLER MEALS per day", 6, <<>>)
        ELSE Guidance("desired structure as stated", 0, <<>>)

\* The types of the meals in the JSON example of the prompt.
_get_json_example(include_recipes, meals_per_day) ==
    LET mpd_lower == lower(meals_per_day)
        show_snacks == Contains(mpd_lower, <<"2">>) /\ Contains(mpd_lower, Snack)
    IN  IF show_snacks THEN FiveItems ELSE ThreeItems

\* meals_per_day = survey_data.get("mealsPerDay", "3")
generate_meal_plan_prompt(survey_data, num_days, include_recipes) ==
    LET meals_per_day == survey_data.mealsPerDay
    IN  [guidance |-> _get_meal_structure_guidance(meals_per_day),
         example |-> _get_json_example(include_recipes, meals_per_day),
         num_days |-> num_days,
         include_recipes |-> include_recipes]

(***************************************************************************)
(* generate_llm_meal_plan and its endpoint.                                *)
(***************************************************************************)
\* What the hosted LLM does with a request.
LlmOutcomes == {"no_api_key", "api_error", "invalid_json", "plan"}

Raised(exception) == [raised |-> exception]

\* The day the LLM answers with.
ExamplePlan == <<[type |-> "breakfast", name |-> "Greek Yogurt Parfait", calories |-> 350]>>

\* async def generate_llm_meal_plan(user, num_days, include_recipes=False)
generate_llm_meal_plan(user, num_days, include_recipes, llm) ==
    IF ~Truthy(user.preferences)
    THEN [raised |-> "HTTPException", status |-> 400]
    ELSE IF IsStr(user.preferences)
    THEN Raised("AttributeError")
    ELSE LET survey_data == DictGet(user.preferences[1].items, "survey_data")
         IN  IF survey_data = None
             THEN [raised |-> "HTTPException", status |-> 400]
             ELSE IF llm # "plan"
             THEN Raised("LLMResponseError")
             ELSE [raised |-> "none", plan |-> ExamplePlan,
                   prompt |-> generate_meal_plan_prompt(survey_data[1], num_days,
                                                        include_recipes)]

\* The parameters generate_llm_meal_plan declares.
ServiceParameters == {"user", "num_days", "include_recipes"}

\* The keyword arguments the endpoint calls it with.
CallKeywords == {"user", "num_days", "include_recipes", "db"}

\* A keyword the function does not declare raises TypeError at the call.
CallService(keywords, user, num_days, include_recipes, llm) ==
    IF keywords \subseteq ServiceParameters
    THEN generate_llm_meal_plan(user, num_days, include_recipes, llm)
    ELSE Raised("TypeError")

\* except LLMResponseError -> 503; except ValueError -> 400; except Exception -> 503
LlmEndpointError(outcome) ==
    IF outcome.raised = "LLMResponseError"
    THEN [status |-> 503, detail |-> "LLM service error"]
    ELSE IF outcome.raised = "ValueError"
    THEN [status |-> 400, detail |-> "Please complete the user survey"]
    ELSE [status |-> 503, detail |-> "Service temporarily unavailable"]

\* Meal(user_id=current_user.id, ..., source=MealSource.GENERATED, date_logged=None)
RECURSIVE SavedTemplates(_, _, _)
SavedTemplates(plan, user_id, first_id) ==
    IF plan = <<>> THEN <<>>
    ELSE <<Meal(first_id, user_id, Head(plan).name, Head(plan).type, "GENERATED",
                None, Some(Head(plan).calories))>>
         \o SavedTemplates(Tail(plan), user_id, first_id + 1)

GenerateLlmMealPlanEndpoint(current_user, include_recipes, llm) ==
    /\ user_req' = [op |-> "generate_llm_meal_plan", user_id |-> current_user,
                    include_recipes |-> include_recipes, llm |-> llm]
    /\ LET row == users[UserIndex(users, current_user)]
           outcome == CallService(CallKeywords, row, 1, include_recipes, llm)
       IN  IF outcome.raised = "none"
           THEN /\ Len(meals) + Len(outcome.plan) <= MaxMeals
                /\ meals' = meals \o SavedTemplates(outcome.plan, current_user, NextMealId)
                /\ user_response' = [status |-> 200, plan |-> outcome.plan,
                                     prompt |-> outcome.prompt]
           ELSE /\ meals' = meals
                /\ user_response' = LlmEndpointError(outcome)
    /\ UNCHANGED <<users, searchVars, entity_rows, meal_req, meal_response, goals>>

(***************************************************************************)
(* The users API on two registered, active users without preferences.      *)
(***************************************************************************)
SurveyUsers ==
    << User(1, "ann@flavorlab.io", "Secret123", TRUE, TRUE, None),
       User(2, "bob@flavorlab.io", "Secret456", TRUE, FALSE, None) >>

InitSurvey ==
    /\ users = SurveyUsers
    /\ user_req = NoUserRequest
    /\ user_response = NoUserResponse
    /\ goals = <<>>
    /\ MealsIdle
    /\ entity_rows = SeededRows
    /\ entities = StoredIds
    /\ relationships = <<>>
    /\ pc = "idle"
    /\ req = NoRequest
    /\ args = NoCall
    /\ SearchIdle
    /\ result = <<>>
    /\ response = NoResponse

NextSurvey ==
    \/ \E u \in Users, survey \in Surveys : SubmitUserSurvey(u, survey)
    \/ \E u \in Users, selectedGoals \in GoalLists : UpdateHealthGoals(u, selectedGoals)
    \/ \E u \in Users, preferences \in ProfilePreferences :
           UpdateCurrentUserProfile(u, preferences)
    \/ \E u \in Users, target \in Users \cup {3} : GetUserNutrition(u, target)
    \/ \E u \in Users : GenerateMealPlan(u)
    \/ \E u \in Users, include_recipes \in BOOLEAN, llm \in LlmOutcomes :
           GenerateLlmMealPlanEndpoint(u, include_recipes, llm)

SpecSurvey == InitSurvey /\ [][NextSurvey]_vars

\* The last request was the LLM meal plan of a user whose preferences hold no
\* survey data.
NoSurveyData(row) ==
    \/ ~Truthy(row.preferences)
    \/ "survey_data" \notin DOMAIN row.preferences[1].items

LlmPlanRequested == user_req.op = "generate_llm_meal_plan"

\* C21: a user without survey data gets 400 from the LLM meal plan endpoint
\* and no Meal is saved; 503 is answered only when the generation itself
\* failed (the LLM gave no valid plan to a user who has survey data).
C21_NoSurveyIs400 ==
    LlmPlanRequested =>
        LET row == users[UserIndex(users, user_req.user_id)]
        IN  /\ NoSurveyData(row) => user_response.status = 400 /\ meals = <<>>
            /\ user_response.status = 503 => ~NoSurveyData(row) /\ user_req.llm # "plan"

(***************************************************************************)
(* The daily calorie goal: services/calorie_service.py                     *)
(* set_user_daily_calorie_goal and PUT /users/me/nutrition-goal.           *)
(***************************************************************************)
\* The goals a caller asks for; SetCalorieGoalRequest wants goal_calories > 0.
GoalValues == {0, 1500, 2500}

\* A row of daily_calorie_goals.
DailyCalorieGoal(id, user_id, goal_calories) ==
    [id |-> id, user_id |-> user_id, goal_calories |-> goal_calories]

\* db.query(DailyCalorieGoal).filter(DailyCalorieGoal.user_id == user_id).first()
find_goal(user_id) ==
    LET rows == SelectSeq(goals, LAMBDA g : g.user_id = user_id)
    IN  IF rows = <<>> THEN None ELSE Some(Head(rows))

NextGoalId ==
    IF goals = <<>> THEN 1
    ELSE 1 + CHOOSE x \in {goals[i].id : i \in 1..Len(goals)} :
                 \A i \in 1..Len(goals) : goals[i].id <= x

\* existing_goal.goal_calories = goal_calories; commit
UpdatedGoals(user_id, goal_calories) ==
    LET first == CHOOSE i \in 1..Len(goals) :
                     /\ goals[i].user_id = user_id
                     /\ \A j \in 1..(i - 1) : goals[j].user_id # user_id
    IN  [goals EXCEPT ![first].goal_calories = goal_calories]

\* db.add(DailyCalorieGoal(user_id=user_id, goal_calories=goal_calories)); commit
CreatedGoals(user_id, goal_calories) ==
    Append(goals, DailyCalorieGoal(NextGoalId, user_id, goal_calories))

\* The names calorie_service.py binds at module level.
ServiceModuleNames ==
    {"date", "datetime", "Optional", "Tuple", "List", "Session", "func",
     "DailyCalorieGoal", "CalorieIntakeEntry"}

\* The names the update branch of set_user_daily_calorie_goal evaluates:
\* existing_goal.last_updated = datetime.now(UTC.utc)
UpdateBranchNames == {"datetime", "UTC"}

\* The service function, called directly.  A name that is not bound raises
\* NameError before the commit: the assignment to the row is not stored.
SetUserDailyCalorieGoal(user_id, goal_calories) ==
    /\ meal_req' = [op |-> "set_user_daily_calorie_goal", user_id |-> user_id,
                    goal_calories |-> goal_calories]
    /\ IF find_goal(user_id) # None
       THEN IF UpdateBranchNames \subseteq ServiceModuleNames
            THEN /\ goals' = UpdatedGoals(user_id, goal_calories)
                 /\ meal_response' = [raised |-> "none",
                        returned |-> SelectSeq(goals', LAMBDA g : g.user_id = user_id)[1]]
            ELSE /\ goals' = goals
                 /\ meal_response' = [raised |-> "NameError"]
       ELSE /\ goals' = CreatedGoals(user_id, goal_calories)
            /\ meal_response' = [raised |-> "none", returned |-> goals'[Len(goals')]]
    /\ UNCHANGED <<meals, outsideMeals>>

\* What set_nutrition_goal hands to DailyCaloriesSummaryResponse.
GoalSummaryFields(table, user_id, today, goal_calories) ==
    LET todays_meals ==
            SelectSeq(table, LAMBDA m : m.user_id = user_id /\ m.date_logged = Some(today))
    IN  [daily_goal |-> goal_calories,
         total_consumed |-> total_consumed(todays_meals),
         remaining |-> goal_calories - total_consumed(todays_meals),
         logged_meals_today |-> [i \in 1..Len(todays_meals) |-> todays_meals[i].id]]

\* PUT /users/me/nutrition-goal
SetNutritionGoal(current_user, goal_calories, today) ==
    /\ meal_req' = [op |-> "set_nutrition_goal", user_id |-> current_user,
                    goal_calories |-> goal_calories, day |-> today]
    /\ IF goal_calories <= 0
       THEN /\ meal_response' = Unprocessable
            /\ goals' = goals
       ELSE /\ goals' = IF find_goal(current_user) # None
                        THEN UpdatedGoals(current_user, goal_calories)
                        ELSE CreatedGoals(current_user, goal_calories)
            /\ meal_response' = DailyCaloriesSummaryResponse(
                   GoalSummaryFields(meals, current_user, today, goal_calories))
    /\ UNCHANGED <<meals, outsideMeals>>

(***************************************************************************)
(* The meals a user logged today, app/api/meals.py:                        *)
(*   DELETE /meals/{meal_id}    delete_logged_meal                         *)
(*   PUT    /meals/{meal_id}    update_logged_meal                         *)
(*   POST   /meals/log-manual   log_manual_calories                        *)
(***************************************************************************)
\* The meals table the dashboard handlers start on: a template of user 1, a
\* meal user 1 logged on each day and a meal user 2 logged.
DashboardPool ==
    << Meal(1, 1, "Salad", "lunch", "GENERATED", None, None),
       Meal(2, 1, "Oatmeal", "breakfast", "LOGGED", Some(1), Some(350)),
       Meal(3, 2, "Curry", "dinner", "LOGGED", Some(1), Some(600)),
       Meal(4, 1, "Salad", "lunch", "LOGGED", Some(2), None) >>

\* Ids are handed out up to the highest id of that table: a new row takes
\* the id a deleted last row has freed.
MaxDashboardId == Len(DashboardPool)

\* The meal ids a dashboard request may name: those, and one nobody has.
DashboardIds == 1..(MaxDashboardId + 1)

\* LogManualCaloriesRequest: meal_type, and calories > 0.
CalorieValues == {0, 200}
MealTypes == {"Snack"}

\* name=f"Manual Entry - {request.meal_type}"
ManualName(meal_type) ==
    CASE meal_type = "Snack" -> "Manual Entry - Snack"
      [] meal_type = "Dinner" -> "Manual Entry - Dinner"
      [] OTHER -> "Manual Entry"

\* Mutant: any meal of the caller can be edited.
IsLoggedToday_OwnerOnly(m, user_id, today) == m.user_id = user_id

\* Meal.user_id == current_user.id, Meal.source == LOGGED, Meal.date_logged == today
IsLoggedToday(m, user_id, today) ==
    /\ m.user_id = user_id
    /\ m.source = "LOGGED"
    /\ m.date_logged = Some(today)

\* The row index of the logged meal the two handlers look up, 0 when the
\* query finds none.
find_logged_meal(meal_id, user_id, today) ==
    LET found == {i \in 1..Len(meals) :
                     meals[i].id = meal_id /\ IsLoggedToday(meals[i], user_id, today)}
    IN  IF found = {} THEN 0 ELSE CHOOSE i \in found : \A j \in found : i <= j

LoggedMealNotFound == [status |-> 404, detail |-> "Logged meal not found or not logged today"]

\* db.delete(meal)
WithoutRow(table, index) ==
    [i \in 1..(Len(table) - 1) |-> IF i < index THEN table[i] ELSE table[i + 1]]

DeleteLoggedMeal(current_user, meal_id, today) ==
    /\ meal_req' = [op |-> "delete_logged_meal", user_id |-> current_user,
                    meal_id |-> meal_id, day |-> today]
    /\ LET index == find_logged_meal(meal_id, current_user, today)
       IN  IF index = 0
           THEN /\ meal_response' = LoggedMealNotFound
                /\ meals' = meals
           ELSE /\ meals' = WithoutRow(meals, index)
                /\ meal_response' =
                       DailyCaloriesSummaryResponse(SummaryFields(meals', current_user, today))
    /\ UNCHANGED <<goals, outsideMeals>>

UpdateLoggedMeal(current_user, meal_id, meal_type, calories, today) ==
    /\ meal_req' = [op |-> "update_logged_meal", user_id |-> current_user,
                    meal_id |-> meal_id, day |-> today,
                    meal_type |-> meal_type, calories |-> calories]
    /\ LET index == find_logged_meal(meal_id, current_user, today)
       IN  IF calories <= 0
           THEN /\ meal_response' = Unprocessable
                /\ meals' = meals
           ELSE IF index = 0
           THEN /\ meal_response' = LoggedMealNotFound
                /\ meals' = meals
           ELSE /\ meals' = [meals EXCEPT ![index].calories = Some(calories),
                                          ![index].meal_type = meal_type]
                /\ meal_response' =
                       DailyCaloriesSummaryResponse(SummaryFields(meals', current_user, today))
    /\ UNCHANGED <<goals, outsideMeals>>

LogManualCalories(current_user, meal_type, calories, today) ==
    /\ meal_req' = [op |-> "log_manual_calories", user_id |-> current_user, day |-> today,
                    meal_type |-> meal_type, calories |-> calories]
    /\ IF calories <= 0
       THEN /\ meal_response' = Unprocessable
            /\ meals' = meals
       ELSE /\ NextMealId <= MaxDashboardId
            /\ meals' = Append(meals, Meal(NextMealId, current_user, ManualName(meal_type),
                                           meal_type, "LOGGED", Some(today), Some(calories)))
            /\ meal_response' =
                   DailyCaloriesSummaryResponse(SummaryFields(meals', current_user, today))
    /\ UNCHANGED <<goals, outsideMeals>>

\* User 1 has stored a goal, user 2 has not.
DashboardGoals == <<DailyCalorieGoal(1, 1, 1500)>>

InitDashboard ==
    /\ meals = DashboardPool
    /\ meal_req = NoMealRequest
    /\ meal_response = NoMealResponse
    /\ goals = DashboardGoals
    /\ users = <<>>
    /\ user_req = NoUserRequest
    /\ user_response = NoUserResponse
    /\ entity_rows = SeededRows
    /\ entities = StoredIds
    /\ relationships = <<>>
    /\ pc = "idle"
    /\ req = NoRequest
    /\ args = NoCall
    /\ SearchIdle
    /\ result = <<>>
    /\ response = NoResponse

NextDashboard ==
    \/ \E u \in Users, t \in MealTypes, c \in CalorieValues, d \in Dates :
           LogManualCalories(u, t, c, d)
    \/ \E u \in Users, m \in DashboardIds, t \in MealTypes, c \in CalorieValues, d \in Dates :
           UpdateLoggedMeal(u, m, t, c, d)
    \/ \E u \in Users, m \in DashboardIds, d \in Dates : DeleteLoggedMeal(u, m, d)

SpecDashboard == InitDashboard /\ [][NextDashboard]_vars

\* The goal handlers alone.
InitGoals ==
    /\ meals = DashboardPool
    /\ meal_req = NoMealRequest
    /\ meal_response = NoMealResponse
    /\ UsersIdle
    /\ entity_rows = SeededRows
    /\ entities = StoredIds
    /\ relationships = <<>>
    /\ pc = "idle"
    /\ req = NoRequest
    /\ args = NoCall
    /\ SearchIdle
    /\ result = <<>>
    /\ response = NoResponse

NextGoals ==
    \/ \E u \in Users, g \in GoalValues : SetUserDailyCalorieGoal(u, g)
    \/ \E u \in Users, g \in GoalValues, d \in Dates : SetNutritionGoal(u, g, d)

SpecGoals == InitGoals /\ [][NextGoals]_vars

GoalRowsOf(user_id) == SelectSeq(goals, LAMBDA g : g.user_id = user_id)

GoalRequested == meal_req.op \in {"set_user_daily_calorie_goal", "set_nutrition_goal"}

\* C22: after every goal-setting call (service or endpoint) with a positive
\* value the user has exactly one DailyCalorieGoal row, the row holds the
\* requested value, and the call returned it without raising; no user ever
\* has two rows.
C22_OneGoalLatestValue ==
    /\ \A u \in Users : Len(GoalRowsOf(u)) <= 1
    /\ GoalRequested /\ meal_req.goal_calories > 0 =>
           /\ Len(GoalRowsOf(meal_req.user_id)) = 1
           /\ GoalRowsOf(meal_req.user_id)[1].goal_calories = meal_req.goal_calories
           /\ meal_req.op = "set_user_daily_calorie_goal" =>
                  /\ meal_response.raised = "none"
                  /\ meal_response.returned = GoalRowsOf(meal_req.user_id)[1]
           /\ meal_req.op = "set_nutrition_goal" => meal_response.status = 200

\* The dashboard operations, and those of them that were carried out.
DashboardOps ==
    {"log_meal_for_today", "log_manual_calories", "update_logged_meal", "delete_logged_meal"}

CarriedOut == meal_req.op \in DashboardOps /\ meal_response.status \notin {400, 404, 422}

\* The caller's rows of today, in table order.
TodaysRows(user_id, today) ==
    {i \in 1..Len(meals) : meals[i].user_id = user_id /\ meals[i].date_logged = Some(today)}

RECURSIVE CaloriesOf(_)
CaloriesOf(rows) ==
    IF rows = {} THEN 0
    ELSE LET i == CHOOSE i \in rows : TRUE
         IN  (IF meals[i].calories = None THEN 0 ELSE meals[i].calories[1])
             + CaloriesOf(rows \ {i})

StoredGoal(user_id) ==
    IF \E i \in 1..Len(goals) : goals[i].user_id = user_id
    THEN goals[CHOOSE i \in 1..Len(goals) : goals[i].user_id = user_id].goal_calories
    ELSE DefaultGoal

\* C25: a dashboard operation that was carried out answers with the summary
\* of the state after it: logged_meals_today are exactly the caller's meals
\* of today, total_consumed is the sum of their calories (a missing value
\* counts 0), daily_goal is the stored goal or 2000, and remaining is
\* daily_goal - total_consumed.
C25_SummaryAfterOperation ==
    CarriedOut =>
        LET rows == TodaysRows(meal_req.user_id, meal_req.day)
        IN  /\ meal_response.status = 200
            /\ {meal_response.body.logged_meals_today[i] :
                    i \in 1..Len(meal_response.body.logged_meals_today)}
               = {meals[i].id : i \in rows}
            /\ Len(meal_response.body.logged_meals_today) = Cardinality(rows)
            /\ meal_response.body.total_consumed = CaloriesOf(rows)
            /\ meal_response.body.daily_goal = StoredGoal(meal_req.user_id)
            /\ meal_response.body.remaining
               = StoredGoal(meal_req.user_id) - CaloriesOf(rows)

\* The rows a delete or update request may act on.
Targets(table, request) ==
    {i \in 1..Len(table) :
        /\ table[i].id = request.meal_id
        /\ table[i].user_id = request.user_id
        /\ table[i].source = "LOGGED"
        /\ table[i].date_logged = Some(request.day)}

EditRequested(request) == request.op \in {"delete_logged_meal", "update_logged_meal"}

\* The rows of a table that a request does not target, in table order.
Untouched(table, request) ==
    SelectSeq(table, LAMBDA m : ~(/\ m.id = request.meal_id
                                  /\ m.user_id = request.user_id
                                  /\ m.source = "LOGGED"
                                  /\ m.date_logged = Some(request.day)))

(***************************************************************************)
(* C26: delete_logged_meal and update_logged_meal act only on a meal that  *)
(* the caller owns, with source LOGGED and date_logged = today.  For any   *)
(* other meal id a well-formed request is answered 404 and the table stays *)
(* as it is; otherwise every row but the targeted one stays as it is, the  *)
(* delete removes the targeted row and the update changes only its         *)
(* calories and meal_type.  So no template, no meal of another day and no  *)
(* meal of another user is ever deleted or modified.                       *)
(***************************************************************************)
C26_OnlyOwnLoggedToday ==
    [][EditRequested(meal_req') =>
          LET request == meal_req'
              targets == Targets(meals, request)
          IN  /\ Untouched(meals', request) = Untouched(meals, request)
              /\ (targets = {} /\ meal_response'.status # 422)
                 => (meal_response'.status = 404 /\ meals' = meals)
              /\ meals' # meals => targets # {}
              /\ (targets # {} /\ request.op = "delete_logged_meal")
                 => Len(meals') = Len(meals) - 1
              /\ (targets # {} /\ request.op = "update_logged_meal")
                 => /\ Len(meals') = Len(meals)
                    /\ \A i \in 1..Len(meals) :
                           [meals'[i] EXCEPT !.calories = meals[i].calories,
                                             !.meal_type = meals[i].meal_type] = meals[i]]_vars

\* The caller asked to delete one of their own templates and was refused.
C26_Witness ==
    /\ meal_req.op = "delete_logged_meal"
    /\ meal_response.status = 404
    /\ \E i \in 1..Len(meals) :
           /\ meals[i].id = meal_req.meal_id
           /\ meals[i].user_id = meal_req.user_id
           /\ meals[i].source = "GENERATED"

\* The caller asked to update a meal of theirs logged on another day.
C26_WitnessOtherDay ==
    /\ meal_req.op = "update_logged_meal"
    /\ meal_response.status = 404
    /\ \E i \in 1..Len(meals) :
           /\ meals[i].id = meal_req.meal_id
           /\ meals[i].user_id = meal_req.user_id
           /\ meals[i].source = "LOGGED"
           /\ meals[i].date_logged # Some(meal_req.day)

\* The caller asked to delete a meal another user logged today.
C26_WitnessOtherUser ==
    /\ meal_req.op = "delete_logged_meal"
    /\ meal_response.status = 404
    /\ \E i \in 1..Len(meals) :
           /\ meals[i].id = meal_req.meal_id
           /\ meals[i].user_id # meal_req.user_id
           /\ meals[i].date_logged = Some(meal_req.day)

\* A meal logged today was deleted: its id is gone from the table.
C26_WitnessDeleted ==
    /\ meal_req.op = "delete_logged_meal"
    /\ meal_response.status \notin {404, 422}
    /\ \A i \in 1..Len(meals) : meals[i].id # meal_req.meal_id

\* The last request submitted a well-formed survey (known pillars) whose
\* mealsPerDay reads 3 meals plus 2 snacks.
SnackSurveySubmitted ==
    /\ user_req.op = "submit_user_survey"
    /\ lower(user_req.survey.mealsPerDay) = ThreeMealsTwoSnacks
    /\ Len(user_req.survey.healthPillars) >= 1
    /\ \A i \in 1..Len(user_req.survey.healthPillars) :
           user_req.survey.healthPillars[i] \in DOMAIN HEALTH_PILLARS

\* C24: a survey whose mealsPerDay describes 3 meals plus 2 snacks is
\* accepted and stored, and the prompt built from the stored survey mandates
\* exactly 5 items a day in the order breakfast, snack, lunch, snack, dinner
\* and shows the 5-item JSON example.
C24_SnackSurveyGivesFiveItems ==
    SnackSurveySubmitted =>
        LET row == users[UserIndex(users, user_req.user_id)]
        IN  /\ user_response.status = 200
            /\ row.preferences # None
            /\ "survey_data" \in DOMAIN row.preferences[1].items
            /\ row.preferences[1].items["survey_data"] = user_req.survey
            /\ LET prompt == generate_meal_plan_prompt(
                                 row.preferences[1].items["survey_data"], 1, FALSE)
               IN  /\ prompt.guidance.items = 5
                   /\ prompt.guidance.order = FiveItems
                   /\ prompt.example = FiveItems

\* C29: the preferences of every user stay a key/value mapping or empty, so
\* every later reader works: update_health_goals with valid goals succeeds
\* and leaves preferences.health_goals = selectedGoals, and
\* get_user_nutrition (for the caller's own id) and generate_meal_plan
\* answer 200.
C29_PreferencesStayMapping ==
    /\ \A i \in 1..Len(users) : users[i].preferences = None \/ IsDict(users[i].preferences)
    /\ (user_req.op = "update_health_goals" /\ GoalsValid(user_req.selectedGoals))
       => /\ user_response.status = 200
          /\ LET row == users[UserIndex(users, user_req.user_id)]
             IN  /\ IsDict(row.preferences)
                 /\ DictGet(row.preferences[1].items, "health_goals")
                    = Some(user_req.selectedGoals)
    /\ (user_req.op = "get_user_nutrition" /\ user_req.target = user_req.user_id)
       => user_response.status = 200
    /\ user_req.op = "generate_meal_plan" => user_response.status = 200

(***************************************************************************)
(* Entity CRUD, app/api/entities.py:                                       *)
(*   GET    /entities/{entity_id}                                          *)
(*   POST   /entities/                                                     *)
(*   PUT    /entities/{entity_id}                                          *)
(*   DELETE /entities/{entity_id}                                          *)
(* The three writing handlers are modelled for a caller that               *)
(* get_current_active_user has let through.                                *)
(***************************************************************************)
\* The search state no CRUD handler touches.
searchWork == <<args, visited, frontier, depth, by_depth, expanded, traversed,
                queue, pred, dist, result>>

\* What the CRUD handlers leave alone.
outsideEntities == <<pc, searchWork, mealVars, goals, userVars>>

\* The ids CRUD requests are made for; the last one is not stored at first.
NumCrudIds == 3
CrudIds == 1..NumCrudIds
InitialCrudIds == 1..(NumCrudIds - 1)

EntityNames == {"Garlic", "Basil"}
EntityClassifications == {"ingredient", "compound"}

\* EntityCreate: name and primary_classification are non-null columns.
EntityCreates ==
    {EntityRow(n, c) : n \in EntityNames, c \in EntityClassifications}

\* EntityUpdate: every field is optional.
EntityUpdate(name, primary_classification) ==
    [name |-> name, primary_classification |-> primary_classification]

EntityUpdates ==
    {EntityUpdate(n, c) : n \in {None} \cup {Some(x) : x \in EntityNames},
                          c \in {None} \cup {Some(x) : x \in EntityClassifications}}

\* EntityResponse.model_validate(entity)
EntityResponse(entity_id, row) ==
    [status |-> 200,
     body |-> [id |-> entity_id, name |-> row.name,
               primary_classification |-> row.primary_classification]]

EntityNotFound(entity_id) ==
    [status |-> 404, detail |-> <<"Entity with ID not found", entity_id>>]

EntityAlreadyExists(entity_id) ==
    [status |-> 400, detail |-> <<"Entity with ID already exists", entity_id>>]

EntityDeleted(entity_id) ==
    [status |-> 200, body |-> [message |-> <<"deleted successfully", entity_id>>,
                               deleted_at |-> "now"]]

EntityError(what) == [status |-> 500, detail |-> what]

\* Mutant: create_entity never finds the id taken.
existing_entity_Never(entity_id) == FALSE

\* db.query(Entity).filter(Entity.id == entity_data.id).first(), as a truth value
existing_entity(entity_id) == entity_id \in entities

\* The rows with one more, or one changed.
WithRow(entity_id, row) ==
    [id \in (DOMAIN entity_rows) \cup {entity_id} |->
        IF id = entity_id THEN row ELSE entity_rows[id]]

\* The rows without the row of entity_id.
WithoutEntity(entity_id) ==
    [id \in (DOMAIN entity_rows) \ {entity_id} |-> entity_rows[id]]

GetEntity(entity_id) ==
    /\ Accepting
    /\ req' = [op |-> "get_entity", entity_id |-> entity_id]
    /\ response' = IF entity_id \in entities
                   THEN EntityResponse(entity_id, entity_rows[entity_id])
                   ELSE EntityNotFound(entity_id)
    /\ UNCHANGED <<entities, entity_rows, relationships, outsideEntities>>

CreateEntity(entity_id, entity_data) ==
    /\ Accepting
    /\ req' = [op |-> "create_entity", entity_id |-> entity_id,
               entity_data |-> entity_data]
    /\ IF existing_entity(entity_id)
       THEN /\ response' = EntityAlreadyExists(entity_id)
            /\ UNCHANGED <<entities, entity_rows>>
       ELSE /\ entities' = entities \cup {entity_id}
            /\ entity_rows' = WithRow(entity_id, entity_data)
            /\ response' = EntityResponse(entity_id, entity_data)
    /\ UNCHANGED <<relationships, outsideEntities>>

\* The row after the assignments of update_entity.
Updated(row, entity_data) ==
    EntityRow(IF entity_data.name # None THEN entity_data.name[1] ELSE row.name,
              IF entity_data.primary_classification # None
              THEN entity_data.primary_classification[1]
              ELSE row.primary_classification)

UpdateEntity(entity_id, entity_data) ==
    /\ Accepting
    /\ req' = [op |-> "update_entity", entity_id |-> entity_id,
               entity_data |-> entity_data]
    /\ IF entity_id \notin entities
       THEN /\ response' = EntityNotFound(entity_id)
            /\ UNCHANGED entity_rows
       ELSE /\ entity_rows' =
                  WithRow(entity_id, Updated(entity_rows[entity_id], entity_data))
            /\ response' =
                  EntityResponse(entity_id, Updated(entity_rows[entity_id], entity_data))
    /\ UNCHANGED <<entities, relationships, outsideEntities>>

\* passive_deletes=True leaves the relationship rows of a deleted entity to
\* the database: it removes them, keeps them, or refuses the delete.
ForeignKeyOutcomes == {"cascade", "kept", "refused"}

Refers(r, entity_id) == r.source_id = entity_id \/ r.target_id = entity_id

HasEdges(entity_id) ==
    \E i \in 1..Len(relationships) : Refers(relationships[i], entity_id)

WithoutEdgesOf(entity_id) ==
    SelectSeq(relationships, LAMBDA r : ~Refers(r, entity_id))

DeleteEntity(entity_id, foreign_key) ==
    /\ Accepting
    /\ req' = [op |-> "delete_entity", entity_id |-> entity_id]
    /\ IF entity_id \notin entities
       THEN /\ response' = EntityNotFound(entity_id)
            /\ UNCHANGED <<entities, entity_rows, relationships>>
       ELSE IF HasEdges(entity_id) /\ foreign_key = "refused"
       THEN /\ response' = EntityError("Error deleting entity")
            /\ UNCHANGED <<entities, entity_rows, relationships>>
       ELSE /\ entities' = entities \ {entity_id}
            /\ entity_rows' = WithoutEntity(entity_id)
            /\ relationships' = IF foreign_key = "cascade"
                                THEN WithoutEdgesOf(entity_id)
                                ELSE relationships
            /\ response' = EntityDeleted(entity_id)
    /\ UNCHANGED outsideEntities

\* The edges of the pool between the entities stored at first.
CrudEdges ==
    SelectSeq(EdgePool, LAMBDA r : /\ r.source_id \in InitialCrudIds
                                   /\ r.target_id \in InitialCrudIds)

InitEntities ==
    /\ entities = InitialCrudIds
    /\ entity_rows = [id \in InitialCrudIds |-> EntityRow("Garlic", "ingredient")]
    /\ relationships = CrudEdges
    /\ pc = "idle"
    /\ req = NoRequest
    /\ args = NoCall
    /\ SearchIdle
    /\ result = <<>>
    /\ response = NoResponse
    /\ MealsIdle
    /\ UsersIdle

NextEntities ==
    \/ \E entity_id \in CrudIds : GetEntity(entity_id)
    \/ \E entity_id \in CrudIds, entity_data \in EntityCreates :
          CreateEntity(entity_id, entity_data)
    \/ \E entity_id \in CrudIds, entity_data \in EntityUpdates :
          UpdateEntity(entity_id, entity_data)
    \/ \E entity_id \in CrudIds, foreign_key \in ForeignKeyOutcomes :
          DeleteEntity(entity_id, foreign_key)

SpecEntities == InitEntities /\ [][NextEntities]_vars

\* One request of the entity API, from the store before it to the store after.
EntityRequested(op) == req'.op = op

StoreUntouched ==
    /\ entities' = entities
    /\ entity_rows' = entity_rows
    /\ relationships' = relationships

EntityLifecycleStep ==
    /\ DOMAIN entity_rows' = entities'
    /\ EntityRequested("create_entity") /\ req'.entity_id \in entities
          => response'.status = 400 /\ StoreUntouched
    /\ (EntityRequested("update_entity") \/ EntityRequested("delete_entity"))
          /\ req'.entity_id \notin entities
          => response'.status = 404 /\ StoreUntouched
    /\ EntityRequested("delete_entity") /\ response'.status = 200
          => req'.entity_id \notin entities'
    /\ EntityRequested("get_entity")
          => /\ StoreUntouched
             /\ response'.status = 404 <=> req'.entity_id \notin entities
             /\ response'.status # 404
                   => /\ response'.status = 200
                      /\ response'.body.id = req'.entity_id
                      /\ response'.body.name = entity_rows[req'.entity_id].name
    /\ \A id \in entities' \ entities :
          /\ EntityRequested("create_entity")
          /\ req'.entity_id = id
          /\ response'.status = 200

\* C23: entity ids are unique and the lifecycle is consistent.  create_entity
\* with an id that is stored answers 400 and leaves the store as it was;
\* update_entity and delete_entity on an id that is not stored answer 404 and
\* change nothing; a successful delete_entity removes the id, get_entity
\* answers 404 exactly for the ids that are not stored, and an id comes
\* (back) into the store only by a successful create_entity of that id.
C23_EntityLifecycle == [][EntityLifecycleStep]_vars

\* get_entity answers 404 for an entity that was stored and has been deleted.
C23_Witness ==
    /\ req.op = "get_entity"
    /\ req.entity_id \in InitialCrudIds
    /\ response.status = 404

\* create_entity is refused for an id that is stored.
C23_WitnessCreateRefused ==
    /\ req.op = "create_entity"
    /\ response.status = 400
    /\ entity_rows[req.entity_id] # req.entity_data

\* A deleted id is created again and read back.
C23_WitnessCreatedAgain ==
    /\ req.op = "get_entity"
    /\ req.entity_id \in InitialCrudIds
    /\ response.status = 200
    /\ response.body.name = "Basil"
    /\ relationships = <<>>

(***************************************************************************)
(* Accounts, app/api/users.py:                                             *)
(*   POST   /users/register                                                *)
(*   POST   /users/login                                                   *)
(*   POST   /users/me/deactivate                                           *)
(*   DELETE /users/me                                                      *)
(*   PUT    /users/{user_id}/activate                                      *)
(* AuthService (app/services/auth.py) is modelled by what its callers rely *)
(* on: create_user stores a row and returns it, delete_user_by_email       *)
(* removes the rows with that email, authenticate_user returns the user    *)
(* with that email whose password verifies, deactivate_user and            *)
(* activate_user write is_active.                                          *)
(***************************************************************************)
\* What the account handlers leave alone.
outsideAccounts == <<searchVars, entity_rows, mealVars, goals>>

\* User ids the model hands out.
MaxUserId == 3

Space == " "
At == "@"
Plus == "+"

\* str.strip()
RECURSIVE lstrip(_)
lstrip(text) ==
    IF text # <<>> /\ Head(text) = Space THEN lstrip(Tail(text)) ELSE text

RECURSIVE rstrip(_)
rstrip(text) ==
    IF text # <<>> /\ text[Len(text)] = Space
    THEN rstrip(SubSeq(text, 1, Len(text) - 1))
    ELSE text

strip(text) == rstrip(lstrip(text))

\* str.partition(sep): the text before the first sep and the text after it.
partition(text, sep) ==
    IF \E i \in 1..Len(text) : text[i] = sep
    THEN LET at == CHOOSE i \in 1..Len(text) :
                      text[i] = sep /\ \A j \in 1..(i - 1) : text[j] # sep
         IN  <<SubSeq(text, 1, at - 1), <<sep>>, SubSeq(text, at + 1, Len(text))>>
    ELSE <<text, <<>>, <<>>>>

FlavorlabLocal ==
    <<"f", "l", "a", "v", "o", "r", "l", "a", "b", ".", "l", "o", "c", "a", "l">>

\* settings.demo_email
demo_email == <<"d", "e", "m", "o", At>> \o FlavorlabLocal

AnnEmail == <<"a", "n", "n", At, "x", ".", "i", "o">>
AnnEmailCapitalised == <<"A", "n", "n", At, "x", ".", "i", "o">>
DemoTaggedCapitalised == <<"D", "e", "m", "o", Plus, "a", At>> \o FlavorlabLocal

\* The addresses clients register and log in with.
Emails == {AnnEmail, AnnEmailCapitalised, demo_email, DemoTaggedCapitalised}

\* re.fullmatch(rf"^{local}(\+[^@]+)?@{domain}$", text)
fullmatch(local, domain, text) ==
    LET n == Len(text) - Len(local) - 1 - Len(domain)
        tag == SubSeq(text, Len(local) + 1, Len(local) + n)
    IN  /\ n >= 0
        /\ SubSeq(text, 1, Len(local)) = local
        /\ \/ tag = <<>>
           \/ /\ Len(tag) >= 2
              /\ tag[1] = Plus
              /\ \A i \in 2..Len(tag) : tag[i] # At
        /\ text[Len(local) + n + 1] = At
        /\ SubSeq(text, Len(local) + n + 2, Len(text)) = domain

\* Mutant: the address is compared as it was sent.
normalized_AsSent(email) == email

\* (user_data.email or "").strip().lower()
normalized(email) == lower(strip(email))

is_demo(input_email) ==
    LET parts == partition(normalized(demo_email), At)
    IN  \/ fullmatch(parts[1], parts[3], input_email)
        \/ fullmatch(parts[1], FlavorlabLocal, input_email)

\* Passwords that pass UserCreate.validate_password: the one users register
\* with, and one more that login is tried with.
RegisterPasswords == {"Secret123"}
Passwords == RegisterPasswords \cup {"Other4567"}

\* Optional[str] of UserCreate.username.
Usernames == {None, Some("annie")}

\* AuthService.get_password_hash and AuthService.verify_password
get_password_hash(password) == <<"hash", password>>
verify_password(password, hashed_password) ==
    hashed_password = get_password_hash(password)

UserRow(id, email, username, hashed_password, is_active, is_verified) ==
    [id |-> id, email |-> email, username |-> username,
     hashed_password |-> hashed_password, is_active |-> is_active,
     is_verified |-> is_verified]

RECURSIVE MaxId(_)
MaxId(table) ==
    IF table = <<>> THEN 0
    ELSE LET rest == MaxId(Tail(table))
         IN  IF Head(table).id > rest THEN Head(table).id ELSE rest

\* The id the database gives the next users row.
NextUserId(table) == MaxId(table) + 1

\* AuthService.delete_user_by_email
delete_user_by_email(table, email) ==
    SelectSeq(table, LAMBDA row : row.email # email)

\* AuthService.create_user
create_user(table, email, password, username, is_active, is_verified) ==
    Append(table, UserRow(NextUserId(table), email, username,
                          get_password_hash(password), is_active, is_verified))

\* AuthService.authenticate_user: None when no user has the email or the
\* password does not verify.
authenticate_user(table, email, password) ==
    LET found == SelectSeq(table, LAMBDA row : /\ row.email = email
                                               /\ verify_password(password, row.hashed_password))
    IN  IF found = <<>> THEN None ELSE Some(Head(found))

\* UserResponse.model_validate(user)
UserResponse(row) ==
    [status |-> 200, id |-> row.id, email |-> row.email, username |-> row.username,
     is_active |-> row.is_active, is_verified |-> row.is_verified]

BadRequest(detail) == [status |-> 400, detail |-> detail]

Unauthorized(detail) == [status |-> 401, detail |-> detail]

\* func.lower(User.email) == input_email
existing_user(table, input_email) ==
    \E i \in 1..Len(table) : lower(table[i].email) = input_email

existing_username(table, username) ==
    \E i \in 1..Len(table) : table[i].username = username

RegisterUser(email, password, username, is_active) ==
    LET input_email == normalized(email)
        cleared == delete_user_by_email(users, input_email)
    IN  /\ user_req' = [op |-> "register_user", email |-> email, password |-> password,
                        username |-> username, is_active |-> is_active]
        /\ IF is_demo(input_email)
           THEN /\ NextUserId(cleared) <= MaxUserId
                /\ users' = create_user(cleared, input_email, password,
                                        IF username # None THEN username ELSE Some("demo"),
                                        TRUE, TRUE)
                /\ user_response' = UserResponse(users'[Len(users')])
           ELSE IF existing_user(users, input_email)
           THEN /\ user_response' = BadRequest("Email already registered")
                /\ UNCHANGED users
           ELSE IF username # None /\ existing_username(users, username)
           THEN /\ user_response' = BadRequest("Username already taken")
                /\ UNCHANGED users
           ELSE /\ NextUserId(users) <= MaxUserId
                /\ users' = create_user(users, input_email, password, username,
                                        is_active, FALSE)
                /\ user_response' = UserResponse(users'[Len(users')])
        /\ UNCHANGED outsideAccounts

\* Mutant: login does not look at is_active.
deactivated_Never(user) == FALSE

\* not user.is_active
deactivated(user) == ~user.is_active

\* email and password are None when the body does not carry them.
LoginForAccessToken(email, password) ==
    /\ user_req' = [op |-> "login", email |-> email, password |-> password]
    /\ user_response' =
          IF email = None \/ password = None
          THEN [status |-> 422, detail |-> "email/username and password required"]
          ELSE LET user == authenticate_user(users, email[1], password[1])
               IN  IF user = None
                   THEN Unauthorized("Incorrect email or password")
                   ELSE IF deactivated(user[1])
                   THEN Unauthorized("Account is deactivated")
                   ELSE [status |-> 200, token_type |-> "bearer",
                         access_token |-> [sub |-> user[1].id, email |-> user[1].email]]
    /\ UNCHANGED <<users, outsideAccounts>>

\* The callers get_current_active_user lets through.
ActiveUsers == {users[i].id : i \in {j \in 1..Len(users) : users[j].is_active}}

\* The callers get_current_verified_user lets through.
VerifiedUsers ==
    {users[i].id : i \in {j \in 1..Len(users) : users[j].is_active /\ users[j].is_verified}}

\* AuthService.deactivate_user and AuthService.activate_user
SetActive(table, id, value) ==
    [i \in 1..Len(table) |->
        IF table[i].id = id THEN [table[i] EXCEPT !.is_active = value] ELSE table[i]]

DeactivateAccount(current_user) ==
    /\ current_user \in ActiveUsers
    /\ user_req' = [op |-> "deactivate_account", user_id |-> current_user]
    /\ users' = SetActive(users, current_user, FALSE)
    /\ user_response' = [status |-> 200, message |-> "Account deactivated successfully"]
    /\ UNCHANGED outsideAccounts

DeleteMyAccount(current_user) ==
    /\ current_user \in ActiveUsers
    /\ user_req' = [op |-> "delete_my_account", user_id |-> current_user]
    /\ users' = SetActive(users, current_user, FALSE)
    /\ user_response' = [status |-> 200, message |-> "Account deactivated successfully"]
    /\ UNCHANGED outsideAccounts

ActivateUserAccount(current_user, user_id) ==
    /\ current_user \in VerifiedUsers
    /\ user_req' = [op |-> "activate_user_account", current_user |-> current_user,
                    user_id |-> user_id]
    /\ IF UserIndex(users, user_id) = 0
       THEN /\ user_response' = [status |-> 404, detail |-> <<"User not found", user_id>>]
            /\ UNCHANGED users
       ELSE /\ users' = SetActive(users, user_id, TRUE)
            /\ user_response' = [status |-> 200, message |-> <<"activated", user_id>>]
    /\ UNCHANGED outsideAccounts

UserIds == 1..MaxUserId

InitAccounts ==
    /\ UsersIdle
    /\ MealsIdle
    /\ entity_rows = SeededRows
    /\ entities = StoredIds
    /\ relationships = <<>>
    /\ pc = "idle"
    /\ req = NoRequest
    /\ args = NoCall
    /\ SearchIdle
    /\ result = <<>>
    /\ response = NoResponse

NextAccounts ==
    \/ \E email \in Emails, password \in RegisterPasswords, username \in Usernames,
          is_active \in BOOLEAN : RegisterUser(email, password, username, is_active)
    \/ \E email \in {None} \cup {Some(e) : e \in Emails},
          password \in {None} \cup {Some(p) : p \in Passwords} :
          LoginForAccessToken(email, password)
    \/ \E current_user \in UserIds : DeactivateAccount(current_user)
    \/ \E current_user \in UserIds : DeleteMyAccount(current_user)
    \/ \E current_user \in UserIds, user_id \in UserIds :
          ActivateUserAccount(current_user, user_id)

SpecAccounts == InitAccounts /\ [][NextAccounts]_vars

\* Two addresses that differ at most in the case of their letters.
EqualIgnoringCase(a, b) ==
    /\ Len(a) = Len(b)
    /\ \A i \in 1..Len(a) : LowerChar(a[i]) = LowerChar(b[i])

NoCaseDuplicates(table) ==
    \A i, j \in 1..Len(table) :
        i # j => ~EqualIgnoringCase(table[i].email, table[j].email)

\* The demo addresses among the addresses clients use: the configured one and
\* a tagged one.
DemoEmails == {demo_email, DemoTaggedCapitalised}

\* The rows whose email is the given one, ignoring case.
SameEmailRows(table, email) ==
    {i \in 1..Len(table) : EqualIgnoringCase(table[i].email, email)}

RegisterStep ==
    /\ NoCaseDuplicates(users')
    /\ user_req'.op = "register_user" =>
          LET sent == user_req'.email
              kept == SelectSeq(users, LAMBDA row : ~EqualIgnoringCase(row.email, sent))
          IN  IF sent \notin DemoEmails
              THEN SameEmailRows(users, sent) # {}
                      => user_response'.status = 400 /\ users' = users
              ELSE /\ user_response'.status = 200
                   /\ Len(users') = Len(kept) + 1
                   /\ SubSeq(users', 1, Len(kept)) = kept
                   /\ LET fresh == users'[Len(users')]
                      IN  /\ EqualIgnoringCase(fresh.email, sent)
                          /\ fresh.is_active
                          /\ fresh.is_verified
                          /\ fresh.hashed_password = get_password_hash(user_req'.password)
                          /\ user_response'.id = fresh.id

\* C27: after any sequence of register_user calls no two stored users have
\* emails that are equal ignoring case.  A registration with an address that
\* is not a demo address and equals a stored email ignoring case is answered
\* 400 and creates nothing; a registration with a demo address removes the
\* stored user with that email and appends a fresh user that is active and
\* verified.
C27_EmailsUniqueIgnoringCase == [][RegisterStep]_vars

\* A registration is refused for an address that differs from the stored one
\* in case only.
C27_Witness ==
    /\ user_req.op = "register_user"
    /\ user_response.status = 400
    /\ user_response.detail = "Email already registered"
    /\ \E i \in SameEmailRows(users, user_req.email) : users[i].email # user_req.email

\* A demo registration has replaced the demo user that was stored: the table
\* has fewer rows than ids were handed out.
C27_WitnessDemoReplaced ==
    /\ user_req.op = "register_user"
    /\ user_req.email \in DemoEmails
    /\ user_response.status = 200
    /\ Len(users) < MaxId(users)
    /\ users[Len(users)].id = user_response.id

\* The rows a login with these credentials is for: the email as sent and a
\* password that is the stored one.
Holders(table, email, password) ==
    {i \in 1..Len(table) : /\ email # None
                           /\ password # None
                           /\ table[i].email = email[1]
                           /\ table[i].hashed_password = get_password_hash(password[1])}

LoginStep ==
    user_req'.op = "login" =>
        LET holders == Holders(users, user_req'.email, user_req'.password)
            status == user_response'.status
        IN  /\ users' = users
            /\ status \in {200, 401, 422}
            /\ status = 422 <=> (user_req'.email = None \/ user_req'.password = None)
            /\ status = 200 <=> \E i \in holders : users[i].is_active
            /\ status = 200 =>
                  \E i \in holders : /\ users[i].is_active
                                     /\ user_response'.access_token.sub = users[i].id

\* activate_user_account has been applied to the user of this row.
Activated(row) ==
    /\ user_req'.op = "activate_user_account"
    /\ user_req'.user_id = row.id
    /\ user_response'.status = 200

\* register_user has replaced the user of this row, a demo user.
ReplacedByDemoSignup(row) ==
    /\ user_req'.op = "register_user"
    /\ user_req'.email \in DemoEmails
    /\ EqualIgnoringCase(user_req'.email, row.email)
    /\ user_response'.status = 200

\* No login with the email of this row can be given a token after the step.
StillRefused(row) ==
    \A j \in 1..Len(users') : users'[j].email = row.email => ~users'[j].is_active

InactiveRows == {users[i] : i \in {j \in 1..Len(users) : ~users[j].is_active}}

\* C28, as claimed: login gives a token only when an email/username and a
\* password are supplied (else 422), the credentials authenticate (else 401)
\* and the user is active (else 401); a user that was deactivated stays
\* refused until activate_user_account is applied to the user.
C28_RefusedUntilActivated ==
    [][LoginStep /\ \A row \in InactiveRows : Activated(row) \/ StillRefused(row)]_vars

\* C28, amended: as above, and a deactivated user stays refused until
\* activate_user_account is applied to the user or, for a demo address, until
\* register_user replaces the user with a fresh active one.
C28_RefusedUntilActivatedOrReplaced ==
    [][LoginStep /\ \A row \in InactiveRows :
           Activated(row) \/ ReplacedByDemoSignup(row) \/ StillRefused(row)]_vars

\* A login with the right password is refused because the account was
\* deactivated: demo users are created active.
C28_Witness ==
    /\ user_req.op = "login"
    /\ user_req.email = Some(demo_email)
    /\ user_response = Unauthorized("Account is deactivated")
    /\ Holders(users, user_req.email, user_req.password) # {}

\* A login is refused for the missing password, and one for the wrong one.
C28_WitnessUnprocessable ==
    /\ user_req.op = "login"
    /\ user_req.email # None
    /\ user_req.password = None
    /\ user_response.status = 422

C28_WitnessWrongPassword ==
    /\ user_req.op = "login"
    /\ user_response = Unauthorized("Incorrect email or password")
    /\ \E i \in 1..Len(users) : users[i].email = user_req.email[1] /\ users[i].is_active

\* A user registered as inactive was activated and has logged in.
C28_WitnessActivated ==
    /\ user_req.op = "login"
    /\ user_req.email = Some(AnnEmail)
    /\ user_response.status = 200
    /\ \E i \in 1..Len(users) : users[i].email = AnnEmail /\ users[i].username = Some("annie")
    /\ \E i \in 1..Len(users) : users[i].email = demo_email /\ ~users[i].is_active

====
